---- MODULE Spec2Model ----
(***************************************************************************)
(* BalanceBridge server: the Electrs access gate (single-flight semaphore, *)
(* cooldown, soft rate limit, timeout and retry), the balance computation  *)
(* and the Nostr request handlers, as a timed state machine.               *)
(* Time is in milliseconds.  Computation steps take no time: time passes   *)
(* only while every task is blocked on a timer, on the gate or on the      *)
(* backend.                                                                *)
(***************************************************************************)
EXTENDS Integers, Sequences, FiniteSets, Bags, TLC

\* ------------------------------------------------------------------ bounds
\* Number of calls of get_address_balance / get_address_txs made on the shared
\* ElectrsClient (each by its own task).
NumCallers == 2
\* Longest UTXO list the backend returns to the balance computation.
MaxUtxos == 2
\* Number of timed-out blocking tasks that may be running at once.
MaxOrphans == 2
\* Width in bits of the (scaled) unsigned balance word.
WordBits == 11
\* Number of events the relays deliver to the subscription.
MaxEvents == 2
\* Number of notifications that wait in the notification channel.
MaxPending == 1
\* Number of the addresses derived from an extended key that are looked up.
MaxDerived == 2
\* Largest gap limit derive_addresses is called with.
MaxGap == 3
\* Number of calls of derive_addresses on the same key.
MaxDerivations == 2
\* Seconds counted while a delivered event waits for the loop.
MaxDelay == 2
\* Number of test_connectivity calls that may be waiting for their pong.
MaxPings == 1

\* --------------------------------------------------------- program constants
\* Duration::from_secs: one second in clock units (milliseconds).
Second == 1000
\* Minimum spacing between two RPC calls (Duration::from_millis(100)).
MIN_SPACING == 100
\* timeout(Duration::from_secs(90), ..) of the first balance attempt.
BALANCE_TIMEOUT == 90 * Second
\* timeout(Duration::from_secs(90), ..) of the retry.
RETRY_TIMEOUT == 90 * Second
\* timeout(Duration::from_secs(45), ..) of the history lookup.
TXS_TIMEOUT == 45 * Second
\* Faulty variant: the first cooldown outlasts the retry's deadline.
LongFirstCooldown == 120 * Second
\* self.set_cooldown(10) after the first balance timeout.
FIRST_COOLDOWN == 10 * Second
\* Faulty variant: the retry's timeout sets the same cooldown as the first.
SameCooldownAgain == 10 * Second
\* self.set_cooldown(20) after the retry timed out.
RETRY_COOLDOWN == 20 * Second
\* self.set_cooldown(10) after a history timeout.
TXS_COOLDOWN == 10 * Second

\* BALANCEBRIDGE_REQUEST_KIND and BALANCEBRIDGE_RESPONSE_KIND.
BALANCEBRIDGE_REQUEST_KIND == 30078
BALANCEBRIDGE_RESPONSE_KIND == 30079

\* u64::MAX of the scaled balance word.
U64_MAX == 2 ^ WordBits - 1

\* ------------------------------------------------------------------ values
\* Instants are kept relative to the current instant: Instant::now() is the
\* origin, a deadline is the time left to it, last_call is minus its age.
now == 0
\* Option<Instant>::None
NoInstant == -1
\* No thread holds the last_call mutex.
NoWorker == -1
\* The last_call mutex is held by a blocking task whose attempt timed out.
Orphan == 0

Callers == 1 .. NumCallers

Max(a, b) == IF a > b THEN a ELSE b

\* The transaction hashes a script_get_history answer may carry.
HistoryResponses == {<<>>, <<"t1", "t2">>}
\* The UTXO lists a script_list_unspent answer may carry while the gate is
\* explored: a confirmed and a mempool output, and two outputs whose sum
\* exceeds the word.
UtxoResponses ==
    { <<[value |-> 1000, height |-> 700000], [value |-> 500, height |-> 0]>>,
      <<[value |-> U64_MAX, height |-> 1], [value |-> 1, height |-> 1]>> }

\* ListUnspentRes values and heights (usize: never negative) the balance
\* computation is explored over, and the lists of at most MaxUtxos of them.
UtxoValues == {0, 1, 500, 1000, U64_MAX - 1, U64_MAX}
UtxoHeights == {0, 1, 700000}
Utxos == [value : UtxoValues, height : UtxoHeights]
UtxoLists == UNION {[1 .. n -> Utxos] : n \in 0 .. MaxUtxos}

\* Results of the blocking functions and of the public calls.
OkBalance(v) == [kind |-> "ok", balance |-> v, txs |-> <<>>]
OkTxs(t) == [kind |-> "ok", balance |-> <<0, 0>>, txs |-> t]
Failure(k) == [kind |-> k, balance |-> <<0, 0>>, txs |-> <<>>]
NoResult == Failure("none")

\* What a call has observed and done so far: the cooldown deadline ahead of it
\* when it was issued (if any), the time since its admission, its attempts, the
\* physical backend calls of its timed-out attempt and the cooldowns it set.
NoLog == [cd_at_issue |-> NoInstant, elapsed |-> 0, attempts |-> 0, phys |-> 0,
          cooldowns |-> <<>>]

\* A blocking task (spawn_blocking): its position in get_address_*_blocking,
\* its operation, whether its address parses, the physical calls it started,
\* the answer of its history call (<<h>> once it has answered h) and its
\* return value.
NoTask == [pc |-> "none", op |-> "balance", ok |-> TRUE, calls |-> <<>>,
           hist |-> <<>>, res |-> NoResult]
\* A blocking task whose JoinHandle was dropped: nobody reads what it did.
\* (Whether its address parses matters only until it is parsed.)
Orphaned(t) ==
    [NoTask EXCEPT !.pc = t.pc, !.op = t.op,
                   !.ok = t.ok \/ t.pc \notin {"rate_limit", "sleeping"}]

VARIABLES
    backend_hangs,  \* the backend never answers (a backend that always times out)
    backend_utxos,  \* the UTXO lists the backend may report for an address
    backend_balances,  \* the balances the client may answer to an event loop
    backend_histories, \* the transaction id lists the client may answer to an event loop
    backend_pings,  \* the pings of test_connectivity in flight at the backend
    cooldown_until, \* ElectrsClient.cooldown_until
    last_call,      \* ElectrsClient.last_call
    last_call_lock, \* who sleeps inside rate_limit with last_call locked
    wake_at,        \* end of the sleep of the thread holding last_call
    permits,        \* ElectrsClient.gate: free permits of the semaphore
    waiters,        \* ElectrsClient.gate: FIFO queue of acquire() futures
    pc,             \* per caller: position in get_address_balance / get_address_txs
    op,             \* per caller: "balance" or "txs"
    deadline,       \* per caller: deadline of the running timeout(..)
    result,         \* per caller: the value the call returned
    log,            \* per caller: what the call observed and did (history)
    worker,         \* per caller: the blocking task its attempt awaits
    orphans,        \* bag of the blocking tasks whose attempt timed out
    build,          \* which event loop runs: nostr_handler.rs, nostr.rs or the legacy one
    paired,         \* the PairingManager of the handler holds the Android pubkey
    channel,        \* client.notifications(): delivered events not yet received
    lagged,         \* the channel overwrote an event the loop has not received
    lags,           \* number of times recv() reported that the receiver lagged
    closed,         \* the notification channel is closed
    arrivals,       \* number of events delivered so far
    current,        \* the event the loop has received last
    hpc,            \* position of the loop: in recv() or inside handle_event
    todo,           \* the Electrs calls handle_event still has to make
    rpcs,           \* backend calls made for the current event
    gate_uses,      \* acquisitions of the client's gate for the current event
    acc,            \* the confirmed and unconfirmed totals of the running lookup
    txids,          \* the transaction ids the running lookup has gathered
    fetched,        \* the ids the history calls for the current event returned
    summed,         \* the balances the balance calls for the current event returned
    stored_pairing, \* the sender store_pairing has written to the pairing file
    timed_out,      \* a call of the lookup for the current event has set a cooldown
    response,       \* the response published for the current event
    outcome,        \* what became of the current event
    head_wait,      \* seconds delivered events waited while a call was awaited
    xpub,           \* derive_addresses: the extended key it is called with
    gap_limit,      \* derive_addresses: its gap_limit argument
    dpc,            \* derive_addresses: not called, in one of its loops, returned
    di,             \* derive_addresses: the index i of the running loop
    addresses,      \* derive_addresses: the Vec it fills and returns
    derivations,    \* number of calls of derive_addresses so far
    previous        \* what the previous call of derive_addresses returned

backendVars == <<backend_hangs, backend_utxos, backend_balances, backend_histories,
                 backend_pings>>
gateVars == <<cooldown_until, last_call, last_call_lock, wake_at, permits, waiters>>
callVars == <<pc, op, deadline, result, log>>
workVars == <<worker, orphans>>
loopVars == <<build, paired, channel, lagged, lags, closed, arrivals, current, hpc, todo,
              rpcs, gate_uses, acc, txids, fetched, summed, stored_pairing, timed_out, response, outcome, head_wait>>
deriveVars == <<xpub, gap_limit, dpc, di, addresses, derivations, previous>>
vars == <<backendVars, gateVars, callVars, workVars, loopVars, deriveVars>>

\* ------------------------------------------------------- balance computation
\* Faulty variant: the addition wraps around the word.
wrapping_add(a, b) == (a + b) % (U64_MAX + 1)
\* u64::saturating_add
saturating_add(a, b) == IF a + b > U64_MAX THEN U64_MAX ELSE a + b
\* u64 `+=` in a build without overflow checks: the sum wraps.
add_assign(a, b) == (a + b) % (U64_MAX + 1)

\* The loop over the UTXOs of get_address_balance_blocking: height > 0 is
\* confirmed, height == 0 is mempool.
RECURSIVE SumUtxos(_, _, _)
SumUtxos(utxos, confirmed, unconfirmed) ==
    IF utxos = <<>> THEN <<confirmed, unconfirmed>>
    ELSE LET u == Head(utxos) IN
         IF u.height > 0
         THEN SumUtxos(Tail(utxos), saturating_add(confirmed, u.value), unconfirmed)
         ELSE SumUtxos(Tail(utxos), confirmed, saturating_add(unconfirmed, u.value))

\* ------------------------------------------------------------------ cooldown
\* Faulty variant: a deadline refuses calls until a check clears it, whatever
\* the clock says.
CooldownIgnoresClock(cd, t) == cd /= NoInstant
\* check_cooldown: fails while the deadline is in the future.
CooldownActive(cd, t) == cd /= NoInstant /\ t < cd
\* Faulty variant: a check that succeeds leaves an expired deadline in place.
KeepsExpired(cd, t) == cd
\* check_cooldown: the deadline it leaves behind (an expired one is cleared).
CooldownAfterCheck(cd, t) == IF cd /= NoInstant /\ ~(t < cd) THEN NoInstant ELSE cd
\* check_cooldown: until.duration_since(now).as_millis(), reported in the
\* error of a refused call.
Remaining(cd, t) == cd - t
\* check_cooldown: Err("Electrs cooling down ({}ms remaining)").
Cooling(cd, t) ==
    [kind |-> "cooling", balance |-> <<0, 0>>, txs |-> <<>>, remaining |-> Remaining(cd, t)]
\* Faulty variant: the duration is taken as milliseconds.
SetCooldownMillis(t, duration) == t + duration \div Second
\* set_cooldown
SetCooldown(t, duration) == t + duration

\* ---------------------------------------------------------------- the calls
Active(c) == pc[c] \in {"attempt1", "attempt2"}
\* No call has just returned: a returned value is taken by its task before
\* anything else happens.
NoReturn == \A c \in Callers : pc[c] /= "done"

\* Faulty variant: the history lookup runs under the balance deadline.
BalanceTimeoutForAll(o) == BALANCE_TIMEOUT
\* timeout(Duration::from_secs(..), spawn_blocking(..)) of the first attempt.
FirstTimeout(o) == IF o = "balance" THEN BALANCE_TIMEOUT ELSE TXS_TIMEOUT

\* spawn_blocking(move || this.get_address_*_blocking(&addr)): the new
\* blocking task.  get_address_balance_blocking parses the address before its
\* first rate_limit, get_address_txs_blocking after it.
Spawn(o, ok) ==
    IF o = "balance" /\ ~ok
    THEN [NoTask EXCEPT !.pc = "done", !.op = o, !.ok = ok, !.res = Failure("error")]
    ELSE [NoTask EXCEPT !.pc = "rate_limit", !.op = o, !.ok = ok]

\* Entry of get_address_balance / get_address_txs: the first check_cooldown,
\* then the call queues on the gate.
Issue(c, o) ==
    /\ NoReturn
    /\ pc[c] = "idle"
    /\ op' = [op EXCEPT ![c] = o]
    /\ log' = [log EXCEPT ![c] = [NoLog EXCEPT !.cd_at_issue =
                                     IF cooldown_until > now THEN cooldown_until
                                                             ELSE NoInstant]]
    /\ IF CooldownActive(cooldown_until, now)
       THEN /\ pc' = [pc EXCEPT ![c] = "done"]
            /\ result' = [result EXCEPT ![c] = Cooling(cooldown_until, now)]
            /\ UNCHANGED gateVars
       ELSE /\ pc' = [pc EXCEPT ![c] = "wait_gate"]
            /\ result' = [result EXCEPT ![c] = NoResult]
            /\ cooldown_until' = CooldownAfterCheck(cooldown_until, now)
            /\ waiters' = Append(waiters, c)
            /\ UNCHANGED <<last_call, last_call_lock, wake_at, permits>>
    /\ UNCHANGED <<loopVars, deriveVars, backendVars, deadline, workVars>>

\* Faulty variant: the cooldown is not checked again once the permit is held.
NoRecheck(cd, t) == FALSE
\* The check_cooldown that follows self.gate.acquire(): another call may have
\* set a deadline while this one waited.
Recheck(cd, t) == CooldownActive(cd, t)

\* self.gate.acquire().await returns for the head of the queue; the second
\* check_cooldown; the first attempt is spawned under its deadline.
Admit(c, ok) ==
    /\ NoReturn
    /\ pc[c] = "wait_gate"
    /\ permits > 0
    /\ waiters /= <<>> /\ Head(waiters) = c
    /\ waiters' = Tail(waiters)
    /\ IF Recheck(cooldown_until, now)
       THEN /\ ok
            /\ pc' = [pc EXCEPT ![c] = "done"]
            /\ result' = [result EXCEPT ![c] = Cooling(cooldown_until, now)]
            /\ UNCHANGED <<cooldown_until, permits, deadline, log, worker>>
       ELSE /\ permits' = permits - 1
            /\ cooldown_until' = CooldownAfterCheck(cooldown_until, now)
            /\ pc' = [pc EXCEPT ![c] = "attempt1"]
            /\ deadline' = [deadline EXCEPT ![c] = now + FirstTimeout(op[c])]
            /\ log' = [log EXCEPT ![c].attempts = 1]
            /\ worker' = [worker EXCEPT ![c] = Spawn(op[c], ok)]
            /\ UNCHANGED result
    /\ UNCHANGED <<loopVars, deriveVars, backendVars, last_call, last_call_lock, wake_at, op, orphans>>

\* Faulty variant: the timeout path returns without dropping the permit.
TimeoutKeepsPermit(c, r) ==
    /\ pc' = [pc EXCEPT ![c] = "done"]
    /\ result' = [result EXCEPT ![c] = r]
    /\ deadline' = [deadline EXCEPT ![c] = NoInstant]
    /\ permits' = IF r.kind = "timeout" THEN permits ELSE permits + 1
\* The call returns r: the permit is dropped.
Finish(c, r) ==
    /\ pc' = [pc EXCEPT ![c] = "done"]
    /\ result' = [result EXCEPT ![c] = r]
    /\ deadline' = [deadline EXCEPT ![c] = NoInstant]
    /\ permits' = permits + 1

\* Faulty variant: a backend error starts the cooldown of a timeout.
CooldownOnError(cd, r) ==
    IF r.kind = "error" THEN SetCooldown(now, FIRST_COOLDOWN) ELSE cd
\* The match arms of an attempt that returned in time, Ok(Ok(Ok(v))) and
\* Ok(Ok(Err(e))): neither calls set_cooldown.
CooldownOnReturn(cd, r) == cd

\* The attempt's blocking task finished before the deadline: Ok(Ok(Ok(v))) or
\* Ok(Ok(Err(e))) is returned.
Complete(c) ==
    /\ NoReturn
    /\ Active(c)
    /\ worker[c].pc = "done"
    /\ Finish(c, worker[c].res)
    /\ cooldown_until' = CooldownOnReturn(cooldown_until, worker[c].res)
    /\ log' = [log EXCEPT ![c].phys = @ + Len(worker[c].calls)]
    /\ worker' = [worker EXCEPT ![c] = NoTask]
    /\ UNCHANGED <<loopVars, deriveVars, backendVars, last_call, last_call_lock, wake_at,
                   waiters, op, orphans>>

\* The timeout drops the JoinHandle of the attempt's blocking task: the task
\* keeps running detached.
Detach(c) ==
    /\ BagCardinality(orphans) < MaxOrphans
    /\ orphans' = orphans (+) SetToBag({Orphaned(worker[c])})
    /\ last_call_lock' = IF last_call_lock = c THEN Orphan ELSE last_call_lock

\* The first balance attempt timed out: set_cooldown(10), then the retry is
\* spawned under a fresh deadline.
TimeoutRetry(c) ==
    /\ NoReturn
    /\ pc[c] = "attempt1" /\ op[c] = "balance"
    /\ now >= deadline[c]
    /\ worker[c].pc /= "done"
    /\ Detach(c)
    /\ cooldown_until' = SetCooldown(now, FIRST_COOLDOWN)
    /\ pc' = [pc EXCEPT ![c] = "attempt2"]
    /\ deadline' = [deadline EXCEPT ![c] = now + RETRY_TIMEOUT]
    /\ log' = [log EXCEPT ![c].attempts = 2,
                          ![c].phys = @ + Len(worker[c].calls),
                          ![c].cooldowns = Append(@, FIRST_COOLDOWN)]
    /\ worker' = [worker EXCEPT ![c] = Spawn(op[c], worker[c].ok)]
    /\ UNCHANGED <<loopVars, deriveVars, backendVars, last_call, wake_at, permits, waiters, op, result>>

\* The cooldown a final timeout sets: 20 s after the balance retry, 10 s after
\* the history lookup.
FinalCooldown(o) == IF o = "balance" THEN RETRY_COOLDOWN ELSE TXS_COOLDOWN

\* The last attempt timed out (the balance retry, or the only attempt of the
\* history lookup): set_cooldown, the call returns its timeout error.
TimeoutFail(c) ==
    /\ NoReturn
    /\ \/ pc[c] = "attempt2" /\ op[c] = "balance"
       \/ pc[c] = "attempt1" /\ op[c] = "txs"
    /\ now >= deadline[c]
    /\ worker[c].pc /= "done"
    /\ Detach(c)
    /\ cooldown_until' = SetCooldown(now, FinalCooldown(op[c]))
    /\ Finish(c, Failure("timeout"))
    /\ log' = [log EXCEPT ![c].phys = @ + Len(worker[c].calls),
                          ![c].cooldowns = Append(@, FinalCooldown(op[c]))]
    /\ worker' = [worker EXCEPT ![c] = NoTask]
    /\ UNCHANGED <<loopVars, deriveVars, backendVars, last_call, wake_at, waiters, op>>

\* The calling task has taken the result; it may call again.
Forget(c) ==
    /\ pc[c] = "done"
    /\ pc' = [pc EXCEPT ![c] = "idle"]
    /\ op' = [op EXCEPT ![c] = "balance"]
    /\ result' = [result EXCEPT ![c] = NoResult]
    /\ log' = [log EXCEPT ![c] = NoLog]
    /\ UNCHANGED <<loopVars, deriveVars, backendVars, gateVars, deadline, workVars>>

\* ------------------------------------------------------ the blocking tasks
\* The blocking task `t` of `who` (a caller awaiting it, or Orphan) becomes t2;
\* a detached task that returned is gone.
Store(who, t, t2) ==
    IF who = Orphan
    THEN /\ orphans' = (orphans (-) SetToBag({t}))
                       (+) (IF t2.pc = "done" THEN EmptyBag ELSE SetToBag({Orphaned(t2)}))
         /\ UNCHANGED worker
    ELSE /\ worker' = [worker EXCEPT ![who] = t2]
         /\ UNCHANGED orphans

\* The blocking function returns r.
Returned(t, r) == [t EXCEPT !.pc = "done", !.res = r]

\* What a blocking task does once rate_limit has returned: the physical call
\* it starts (get_address_txs_blocking parses the address first, and returns
\* its error without a call).
AfterRateLimit(t) ==
    LET second == t.pc \in {"rate_limit2", "sleeping2"} IN
    IF ~second /\ t.op = "txs" /\ ~t.ok
    THEN Returned(t, Failure("error"))
    ELSE [t EXCEPT !.pc = IF second THEN "unspent" ELSE "history",
                   !.calls = Append(@, IF second THEN "unspent" ELSE "history")]

\* Faulty variant: the thread sleeps for the time elapsed since the last call.
SleepElapsed(last) == now + (now - last)
\* rate_limit: the end of sleep(Duration::from_millis(100) - elapsed).
SleepUntil(last) == last + MIN_SPACING

\* rate_limit: lock last_call; when the previous call is less than 100 ms old
\* the thread sleeps with the lock held, otherwise it records now and goes on.
RateLimit(who, t) ==
    /\ NoReturn
    /\ t.pc \in {"rate_limit", "rate_limit2"}
    /\ last_call_lock = NoWorker
    /\ IF now - last_call < MIN_SPACING
       THEN /\ last_call_lock' = who
            /\ wake_at' = SleepUntil(last_call)
            /\ Store(who, t, [t EXCEPT !.pc = IF t.pc = "rate_limit" THEN "sleeping"
                                                                      ELSE "sleeping2"])
            /\ UNCHANGED last_call
       ELSE /\ last_call' = now
            /\ Store(who, t, AfterRateLimit(t))
            /\ UNCHANGED <<last_call_lock, wake_at>>
    /\ UNCHANGED <<loopVars, deriveVars, backendVars, cooldown_until, permits, waiters, callVars>>

\* rate_limit: the sleep is over; *last = Instant::now(), the lock is released.
Wake(who, t) ==
    /\ NoReturn
    /\ t.pc \in {"sleeping", "sleeping2"}
    /\ last_call_lock = who
    /\ now >= wake_at
    /\ last_call' = now
    /\ last_call_lock' = NoWorker
    /\ wake_at' = NoInstant
    /\ Store(who, t, AfterRateLimit(t))
    /\ UNCHANGED <<loopVars, deriveVars, backendVars, cooldown_until, permits, waiters, callVars>>

\* Faulty variant: no fast path, the UTXOs are listed whatever the history.
HistoryWithoutFastPath(t, h) ==
    IF t.op = "txs" THEN Returned([t EXCEPT !.hist = <<h>>], OkTxs(h))
    ELSE [t EXCEPT !.pc = "rate_limit2", !.hist = <<h>>]
\* get_address_balance_blocking after script_get_history answered: an empty
\* history returns (0,0) at once, a non-empty one goes on to list_unspent.
\* get_address_txs_blocking returns the transaction hashes.
HistoryAnswered(t, h) ==
    IF t.op = "txs" THEN Returned([t EXCEPT !.hist = <<h>>], OkTxs(h))
    ELSE IF h = <<>> THEN Returned([t EXCEPT !.hist = <<h>>], OkBalance(<<0, 0>>))
    ELSE [t EXCEPT !.pc = "rate_limit2", !.hist = <<h>>]

\* The backend answers the script_get_history call of a blocking task.
AnswerHistory(who, t) ==
    /\ NoReturn
    /\ ~backend_hangs
    /\ t.pc = "history"
    /\ \E h \in HistoryResponses : Store(who, t, HistoryAnswered(t, h))
    /\ UNCHANGED <<loopVars, deriveVars, backendVars, gateVars, callVars>>

\* The backend answers the script_list_unspent call: the values are summed.
AnswerUnspent(who, t) ==
    /\ NoReturn
    /\ ~backend_hangs
    /\ t.pc = "unspent"
    /\ \E utxos \in backend_utxos :
          Store(who, t, Returned(t, OkBalance(SumUtxos(utxos, 0, 0))))
    /\ UNCHANGED <<loopVars, deriveVars, backendVars, gateVars, callVars>>

\* The backend answers a call with a protocol error: `?` returns it.
AnswerError(who, t) ==
    /\ NoReturn
    /\ ~backend_hangs
    /\ t.pc \in {"history", "unspent"}
    /\ Store(who, t, Returned(t, Failure("error")))
    /\ UNCHANGED <<loopVars, deriveVars, backendVars, gateVars, callVars>>

\* ------------------------------------------------------------ the ping
\* test_connectivity (and warm_up through it): self.client.ping() is called
\* on the calling thread, as the function is entered.
test_connectivity ==
    /\ backend_pings < MaxPings
    /\ backend_pings' = backend_pings + 1
    /\ UNCHANGED <<backend_hangs, backend_utxos, backend_balances, backend_histories,
                   gateVars, callVars, workVars, loopVars, deriveVars>>

\* The backend answers a ping: test_connectivity returns.
PingAnswered ==
    /\ ~backend_hangs
    /\ backend_pings > 0
    /\ backend_pings' = backend_pings - 1
    /\ UNCHANGED <<backend_hangs, backend_utxos, backend_balances, backend_histories,
                   gateVars, callVars, workVars, loopVars, deriveVars>>

\* ------------------------------------------------------------------ the clock
\* The blocking tasks that exist: those awaited by a caller and the detached.
Joined == {c \in Callers : worker[c].pc /= "none"}
Detached == BagToSet(orphans)
\* The blocking tasks that have not returned.
RunningTasks == Cardinality({c \in Joined : worker[c].pc /= "done"}) + BagCardinality(orphans)

\* A step that takes no time is enabled: the clock does not advance past it.
Urgent ==
    \/ \E c \in Callers :
          \/ pc[c] = "done"
          \/ pc[c] = "wait_gate" /\ permits > 0 /\ waiters /= <<>> /\ Head(waiters) = c
          \/ Active(c) /\ worker[c].pc = "done"
          \/ Active(c) /\ now >= deadline[c]
          \/ worker[c].pc \in {"rate_limit", "rate_limit2"} /\ last_call_lock = NoWorker
    \/ \E t \in Detached : t.pc \in {"rate_limit", "rate_limit2"} /\ last_call_lock = NoWorker
    \/ last_call_lock /= NoWorker /\ now >= wake_at

\* The instants at which a timer fires or the cooldown ends.
Timers ==
    {deadline[c] : c \in {x \in Callers : Active(x)}}
    \cup (IF last_call_lock /= NoWorker THEN {wake_at} ELSE {})
    \cup (IF cooldown_until /= NoInstant THEN {cooldown_until} ELSE {})
NextTimers == {t \in Timers : t > now}

\* An instant as seen d later.
Later(t, d) == IF t = NoInstant THEN NoInstant ELSE Max(t - d, now)

\* The clock advances by d: every stored instant moves d into the past (an
\* expired deadline stays expired, a last call older than the spacing stays so).
Advance(d) ==
    /\ cooldown_until' = Later(cooldown_until, d)
    /\ last_call' = Max(last_call - d, now - MIN_SPACING)
    /\ wake_at' = Later(wake_at, d)
    /\ deadline' = [c \in Callers |-> Later(deadline[c], d)]
    /\ log' = [c \in Callers |->
                 IF Active(c) THEN [log[c] EXCEPT !.elapsed = @ + d] ELSE log[c]]
    /\ UNCHANGED <<loopVars, deriveVars, backendVars, last_call_lock, permits, waiters, pc, op, result,
                   workVars>>

\* The clock advances to the next timer.
TickTimer ==
    /\ ~Urgent
    /\ NextTimers /= {}
    /\ \E d \in NextTimers : (\A u \in NextTimers : d <= u) /\ Advance(d - now)

\* The clock advances by one second while no call holds the gate, no timer
\* being due before.
TickSecond ==
    /\ ~Urgent
    /\ \A c \in Callers : ~Active(c)
    /\ \A t \in NextTimers : now + Second <= t
    /\ Advance(Second)

\* ------------------------------------------------------------ the event loops
\* The three event loops of the repository.
Builds == {"nostr_handler", "nostr", "legacy_handler"}

\* What a request's content is: not JSON, JSON of another type, a lookup
\* without a query, with a blank query, with a query that is neither an
\* address nor an extended key, with an address, with an extended key, with
\* a string that has the prefix of an extended key but is none; or the
\* pairing message "hello / paired" (which is not JSON).
Contents == {"garbage", "other_type", "no_query", "empty_query", "invalid_query",
             "address", "xpub", "bad_xpub", "hello_paired"}

\* An event: its kind, whether a p tag names the server, the values of its
\* req tags in order, its author, whether its content is NIP-44 encrypted to
\* the server, and what the content is.
AllEvents ==
    [kind : {BALANCEBRIDGE_REQUEST_KIND, BALANCEBRIDGE_RESPONSE_KIND}, p : BOOLEAN,
     req : {<<>>, <<"r1">>, <<"r2", "r1">>}, sender : {"android", "stranger"},
     enc : BOOLEAN, content : Contents]
\* The events explored: a well-formed lookup of an address by the Android
\* app and every event that differs from it in one field; the well-formed
\* lookup is encrypted for the legacy handler and plain for the others. The
\* pairing message, to the other builds one more content that is not JSON, is
\* explored for the legacy handler, which alone pairs.
Oddities(enc, e) ==
    (IF e.kind /= BALANCEBRIDGE_REQUEST_KIND THEN 1 ELSE 0) + (IF e.p THEN 0 ELSE 1)
    + (IF e.req /= <<"r1">> THEN 1 ELSE 0) + (IF e.sender /= "android" THEN 1 ELSE 0)
    + (IF e.enc /= enc THEN 1 ELSE 0) + (IF e.content /= "address" THEN 1 ELSE 0)
Explored(b, e) ==
    /\ Oddities(b = "legacy_handler", e) <= 1
    /\ e.content = "hello_paired" => b = "legacy_handler"
Events == {e \in AllEvents : \E b \in Builds : Explored(b, e)}
NoEvent == [kind |-> 0, p |-> FALSE, req |-> <<>>, sender |-> "", enc |-> FALSE,
            content |-> ""]

\* A published event: its kind, the values of its req tags, the req field of
\* its payload (if any), whom its p tags name, whether the content is
\* encrypted, the status it reports, the balance and the transaction ids
\* of its result, and the `result` and `error` members of its payload (an
\* Option is a sequence of at most one element; a payload without the member
\* has none).
NoResponse == [kind |-> 0, req |-> <<>>, payload_req |-> <<>>, p |-> {}, enc |-> FALSE,
               status |-> "", balance |-> <<0, 0>>, txs |-> <<>>,
               result |-> <<>>, error |-> <<>>]

\* What became of the current event: the result of its lookup, of the
\* publication of its response, the Result handle_event returned, and the
\* number of times a response was handed to the relay client.
NoOutcome == [lookup |-> "none", sent |-> "none", returned |-> "none", publishes |-> 0]

\* What the Electrs client answers to a balance call and to a history call of
\* the event loops: amounts, and transaction ids in the backend's order (a
\* number stands for a fixed-width hexadecimal id, ordered as the strings are).
ScenarioBalance == <<1000, 500>>
ScenarioHistory == <<2, 1>>
BalanceAnswers == {ScenarioBalance, <<1, 0>>, <<U64_MAX, 1>>}
HistoryAnswers == {ScenarioHistory, <<3, 2>>}
\* The answers of a backend to the calls of a lookup.
Answers(call) == IF call = "balance" THEN backend_balances ELSE backend_histories

\* The subscription filter of each loop: the relays deliver matching events.
Subscribed(b, e) ==
    /\ e.kind = BALANCEBRIDGE_REQUEST_KIND
    /\ b = "nostr" => e.p

\* get_tag(event, "req") and the scan of nostr.rs: the value of the first req
\* tag, if there is one.
get_tag(e) == IF e.req = <<>> THEN <<>> ELSE <<Head(e.req)>>

\* Faulty variant: every query passes for an address.
AnyStringIsAddress(content) == TRUE
\* xpub::is_xpub, xpub::is_bitcoin_address on the query of a request.
is_xpub(content) == content \in {"xpub", "bad_xpub"}
is_bitcoin_address(content) == content = "address"
\* xpub::derive_addresses succeeds.
Derives(content) == content = "xpub"
\* Address::from_str(..) in the Electrs client succeeds: on an address, and on
\* the addresses derived from an extended key (nostr.rs passes the query as
\* it is).
AddressParses(b, content) ==
    is_bitcoin_address(content) \/ (Derives(content) /\ b /= "nostr")
\* BitcoinLookupRequest::is_valid (legacy protocol): a lookup with a query.
is_valid(content) == content \in {"invalid_query", "address", "xpub", "bad_xpub"}

\* The Electrs calls of a lookup: one balance call for an address (followed
\* by a history call in nostr.rs and in the legacy handler), a balance and a
\* history call for each address derived from an extended key.
RECURSIVE DerivedCalls(_)
DerivedCalls(n) == IF n = 0 THEN <<>> ELSE <<"balance", "txs">> \o DerivedCalls(n - 1)
LookupCalls(b, content) ==
    IF b = "nostr" THEN <<"balance", "txs">>
    ELSE IF is_xpub(content) THEN DerivedCalls(MaxDerived)
    ELSE IF b = "legacy_handler" THEN <<"balance", "txs">>
    ELSE <<"balance">>

\* ----- transaction id lists
Range(seq) == {seq[i] : i \in 1 .. Len(seq)}
\* HashSet::insert of each id of a list (the set is kept as a list without
\* repetition, in no particular order).
RECURSIVE InsertAll(_, _)
InsertAll(set, ids) ==
    IF ids = <<>> THEN set
    ELSE InsertAll(IF Head(ids) \in Range(set) THEN set ELSE Append(set, Head(ids)),
                   Tail(ids))
\* HashSet::into_iter().collect(): the ids in any order.
Orderings(set) ==
    {o \in [1 .. Len(set) -> Range(set)] : \A x \in Range(set) : \E i \in 1 .. Len(set) : o[i] = x}
\* Faulty variant: the list is left in the order it was collected in.
Unsorted(seq) == seq
\* Vec::sort
RECURSIVE InsertSorted(_, _)
InsertSorted(sorted, x) ==
    IF sorted = <<>> THEN <<x>>
    ELSE IF x <= Head(sorted) THEN <<x>> \o sorted
    ELSE <<Head(sorted)>> \o InsertSorted(Tail(sorted), x)
RECURSIVE sort(_)
sort(seq) == IF seq = <<>> THEN <<>> ELSE InsertSorted(sort(Tail(seq)), Head(seq))
\* Vec::dedup: consecutive repetitions are removed.
RECURSIVE Dedup(_)
Dedup(seq) ==
    IF Len(seq) < 2 THEN seq
    ELSE IF seq[1] = seq[2] THEN Dedup(Tail(seq))
    ELSE <<Head(seq)>> \o Dedup(Tail(seq))

\* The transaction ids a lookup has gathered so far after a history call
\* answered ids: inserted into the HashSet (nostr_handler.rs), appended to
\* the Vec (legacy), or taken as they are (nostr.rs).
Gathered(b, sofar, ids) ==
    IF b = "nostr_handler" THEN InsertAll(sofar, ids)
    ELSE IF b = "legacy_handler" THEN sofar \o ids
    ELSE ids
\* The orders in which the gathered ids may reach the final list: any order
\* out of the HashSet, the order of the Vec otherwise.
CollectOrders(b, content, gathered) ==
    IF b = "nostr_handler" /\ is_xpub(content) THEN Orderings(gathered) ELSE {gathered}
\* The transaction list of the result: sorted (and deduplicated in the legacy
\* handler) for an extended key; for an address nostr_handler.rs reports an
\* empty list, the others the history as the client returned it.
FinalTxs(b, content, collected) ==
    IF is_xpub(content) /\ b = "nostr_handler" THEN sort(collected)
    ELSE IF is_xpub(content) /\ b = "legacy_handler" THEN Dedup(sort(collected))
    ELSE IF b = "nostr_handler" THEN <<>>
    ELSE collected

\* The totals after a balance call answered v: saturating additions in
\* nostr_handler.rs, `+=` in the legacy handler; an address lookup and
\* nostr.rs take the answer as it is.
Accumulated(b, content, sofar, v) ==
    IF ~is_xpub(content) \/ b = "nostr" THEN v
    ELSE IF b = "nostr_handler"
         THEN <<saturating_add(sofar[1], v[1]), saturating_add(sofar[2], v[2])>>
    ELSE <<add_assign(sofar[1], v[1]), add_assign(sofar[2], v[2])>>

\* The legacy totals `total_confirmed += confirmed` overflow: a build with
\* overflow checks panics there, a build without them wraps.
Overflows(b, content, sofar, v) ==
    /\ b = "legacy_handler"
    /\ is_xpub(content)
    /\ sofar[1] + v[1] > U64_MAX \/ sofar[2] + v[2] > U64_MAX

\* `total as i64`, `confirmed as i64` of the legacy handler: the upper half of
\* the unsigned range becomes negative.
as_i64(n) == IF n >= 2 ^ (WordBits - 1) THEN n - 2 ^ WordBits ELSE n

\* Option<T>: None and Some(x).
None == <<>>
Some(x) == <<x>>

\* The message of the error response of nostr_handler.rs to the request e:
\* the content is not a LookupRequest, is of another type, has a blank query,
\* or perform_lookup failed.
ErrorMessage(e) ==
    IF e.enc \/ e.content \in {"garbage", "hello_paired", "no_query", "response"}
    THEN "invalid_json"
    ELSE IF e.content = "other_type" THEN "invalid_type"
    ELSE IF e.content = "empty_query" THEN "empty_query"
    ELSE "lookup_failed"

\* The LookupResponse send_ok builds.
send_ok(req_id, res) ==
    [typ |-> "bitcoin_lookup_response", status |-> "ok", req |-> req_id,
     result |-> Some(res), error |-> None]
\* Faulty variant: the error response carries an empty result beside its
\* message.
ErrorWithResult(req_id, msg) ==
    [typ |-> "bitcoin_lookup_response", status |-> "error", req |-> req_id,
     result |-> Some([balance |-> <<0, 0>>, txs |-> <<>>]), error |-> Some(msg)]
\* The LookupResponse send_error builds.
send_error(req_id, msg) ==
    [typ |-> "bitcoin_lookup_response", status |-> "error", req |-> req_id,
     result |-> None, error |-> Some(msg)]

\* publish_response (nostr_handler.rs), the publication of nostr.rs and
\* send_response (legacy) for the request e. The payloads of nostr.rs and of
\* the legacy handler are flat: they have no `result` and no `error` member.
Response(b, e, status, balance, txs) ==
    IF b = "nostr_handler"
    THEN LET resp == IF status = "ok"
                     THEN send_ok(get_tag(e), [balance |-> balance, txs |-> txs])
                     ELSE send_error(get_tag(e), ErrorMessage(e))
         IN  [kind |-> BALANCEBRIDGE_RESPONSE_KIND, req |-> get_tag(e),
              payload_req |-> resp.req, p |-> {e.sender, "server"}, enc |-> FALSE,
              status |-> resp.status, balance |-> balance, txs |-> txs,
              result |-> resp.result, error |-> resp.error]
    ELSE IF b = "nostr"
    THEN [kind |-> BALANCEBRIDGE_RESPONSE_KIND, req |-> get_tag(e),
          payload_req |-> get_tag(e), p |-> {e.sender}, enc |-> FALSE,
          status |-> status, balance |-> balance, txs |-> txs,
          result |-> None, error |-> None]
    ELSE [kind |-> BALANCEBRIDGE_REQUEST_KIND, req |-> <<>>, payload_req |-> <<>>,
          p |-> {}, enc |-> TRUE, status |-> status,
          balance |-> <<as_i64(balance[1]), as_i64(balance[2])>>, txs |-> txs,
          result |-> None, error |-> None]

\* self.keys.nip44_decrypt(&event.pubkey, &event.content) of the legacy
\* handler succeeds on a content encrypted to the server.
nip44_decrypt(e) == e.enc
\* PairingManager::has_pairing: a pairing was there at start, or was stored.
has_pairing == paired \/ stored_pairing /= "none"
\* handle_pairing_event reaches store_pairing: it decrypts the content again
\* and compares it with "hello / paired".
handle_pairing_event(e) == nip44_decrypt(e) /\ e.content = "hello_paired"
\* The legacy loop and handle_event on e reach store_pairing: the sender
\* passes the check against the peer paired at start, the content fails to
\* decrypt, no pairing is stored, and handle_pairing_event stores one.
Pairs(b, e) ==
    /\ b = "legacy_handler"
    /\ ~(paired /\ e.sender /= "android")
    /\ ~nip44_decrypt(e)
    /\ ~has_pairing
    /\ handle_pairing_event(e)

\* Faulty variant: handle_event does not look at the kind of the event.
AnyKind(e) == TRUE
\* The first check of handle_event in nostr_handler.rs: the event is of the
\* request kind.
kind_matches(e) == e.kind = BALANCEBRIDGE_REQUEST_KIND

\* What handle_event does with e before its first Electrs call: it returns
\* without a response ("drop"), publishes an error response for a request it
\* cannot read ("error"), fails the lookup before any call ("reject": the
\* query is invalid or no address can be derived) or starts the calls of the
\* lookup ("lookup").
Plan(b, e) ==
    IF b = "nostr_handler" THEN
        IF ~kind_matches(e) \/ ~e.p \/ get_tag(e) = <<>> THEN "drop"
        ELSE IF e.enc \/ e.content \in {"garbage", "hello_paired", "no_query", "other_type",
                                        "empty_query", "response"}
             THEN "error"
        ELSE IF is_xpub(e.content) THEN (IF Derives(e.content) THEN "lookup" ELSE "reject")
        ELSE IF is_bitcoin_address(e.content) THEN "lookup"
        ELSE "reject"
    ELSE IF b = "nostr" THEN
        IF e.enc \/ e.content \in {"garbage", "hello_paired", "other_type", "no_query",
                                   "response"}
        THEN "drop"
        ELSE IF get_tag(e) = <<>> THEN "drop"
        ELSE "lookup"
    ELSE
        IF paired /\ e.sender /= "android" THEN "drop"
        ELSE IF ~nip44_decrypt(e) \/ e.content \in {"garbage", "hello_paired", "no_query",
                                                     "response"}
        THEN "drop"
        ELSE IF ~is_valid(e.content) THEN "drop"
        ELSE IF is_xpub(e.content) THEN (IF Derives(e.content) THEN "lookup" ELSE "reject")
        ELSE IF is_bitcoin_address(e.content) THEN "lookup"
        ELSE "reject"

\* The Result handle_event returns when it drops e: only nostr.rs returns an
\* error (the content is not JSON, has no query, or the req tag is missing;
\* a message of another type, as a response payload is, is ignored with Ok).
DropResult(b, e) ==
    IF b = "nostr" /\ (e.enc \/ e.content \notin {"other_type", "response"})
    THEN "err" ELSE "ok"

\* Faulty variant: the loop returns the error of handle_event.
PropagateHandlerError(b, returned) == IF returned = "err" THEN "stopped" ELSE "recv"
\* The loop after handle_event returned: an error is logged, the loop goes
\* on to the next recv().
OnHandlerResult(b, returned) == "recv"
\* Faulty variant: nostr.rs returns on every error of recv().
LagIsFatal(b, err) == IF b = "nostr" THEN "stopped" ELSE "recv"
\* The loop after recv() returned an error: nostr.rs continues on Lagged and
\* returns on any other error; the two handlers log and continue.
OnRecvError(b, err) == IF b = "nostr" /\ err /= "lagged" THEN "stopped" ELSE "recv"

\* The relays deliver an event matching the subscription: it joins the
\* notification channel; when the channel is full its oldest event is
\* overwritten and the receiver has lagged.
Arrive(e) ==
    /\ arrivals < MaxEvents
    /\ ~closed
    /\ Explored(build, e)
    /\ Subscribed(build, e)
    /\ arrivals' = arrivals + 1
    /\ IF Len(channel) < MaxPending
       THEN /\ channel' = Append(channel, e)
            /\ UNCHANGED <<lagged, head_wait>>
       ELSE /\ channel' = Append(Tail(channel), e)
            /\ lagged' = TRUE
            /\ head_wait' = 0
    /\ UNCHANGED <<build, paired, lags, closed, current, hpc, todo, rpcs, gate_uses,
                   acc, txids, fetched, summed, stored_pairing, timed_out, response, outcome>>
    /\ UNCHANGED <<deriveVars, backendVars, gateVars, callVars, workVars>>

\* The client shuts down: the notification channel is closed.
Close ==
    /\ ~closed
    /\ closed' = TRUE
    /\ UNCHANGED <<build, paired, channel, lagged, lags, arrivals, current, hpc, todo, rpcs,
                   gate_uses, acc, txids, fetched, summed, stored_pairing, timed_out, response, outcome, head_wait>>
    /\ UNCHANGED <<deriveVars, backendVars, gateVars, callVars, workVars>>

\* The response r as the event the relays hold: the server is its author, its
\* kind and tags are those it was published with, its content is the payload
\* of a response, which the legacy handler encrypted to the requester and
\* not to the server.
EchoOf(r) ==
    [kind |-> r.kind, p |-> "server" \in r.p, req |-> r.req, sender |-> "server",
     enc |-> FALSE, content |-> "response"]

\* A relay delivers the response published last back to the service.
Echo ==
    /\ arrivals < MaxEvents
    /\ ~closed
    /\ response /= NoResponse
    /\ arrivals' = arrivals + 1
    /\ IF Len(channel) < MaxPending
       THEN /\ channel' = Append(channel, EchoOf(response))
            /\ UNCHANGED <<lagged, head_wait>>
       ELSE /\ channel' = Append(Tail(channel), EchoOf(response))
            /\ lagged' = TRUE
            /\ head_wait' = 0
    /\ UNCHANGED <<build, paired, lags, closed, current, hpc, todo, rpcs, gate_uses,
                   acc, txids, fetched, summed, stored_pairing, timed_out, response, outcome>>
    /\ UNCHANGED <<deriveVars, backendVars, gateVars, callVars, workVars>>

\* Faulty variant: only the result of a successful lookup is published.
PublishesOnSuccess(b, ok) == ok
\* Whether the handler publishes a response when its lookup has ended:
\* nostr_handler.rs answers a failed lookup with send_error, the other two
\* return its error.
Publishes(b, ok) == ok \/ b = "nostr_handler"

\* handle_event comes to its end for the request e: after a lookup that
\* succeeded, its response is published; after one that failed,
\* nostr_handler.rs publishes an error response and the others return the
\* error. A publication that fails is returned as an error too.
Conclude(e, ok, sent, balance, txs) ==
    LET publishes == Publishes(build, ok)
        returned == IF publishes /\ sent THEN "ok" ELSE "err" IN
    /\ response' = IF publishes /\ sent
                   THEN Response(build, e, IF ok THEN "ok" ELSE "error",
                                 IF ok THEN balance ELSE <<0, 0>>, IF ok THEN txs ELSE <<>>)
                   ELSE NoResponse
    /\ outcome' = [lookup |-> IF ok THEN "ok" ELSE "failed",
                   sent |-> IF ~publishes THEN "none" ELSE IF sent THEN "ok" ELSE "failed",
                   returned |-> returned,
                   publishes |-> IF publishes THEN 1 ELSE 0]
    /\ hpc' = OnHandlerResult(build, returned)
    /\ todo' = <<>>

\* The task running the loop panics inside the handler: nothing is published
\* and no further event is received.
Panic ==
    /\ response' = NoResponse
    /\ outcome' = [NoOutcome EXCEPT !.lookup = "panicked"]
    /\ hpc' = "panicked"
    /\ todo' = <<>>

\* notifications.recv() returns the oldest delivered event and handle_event
\* runs up to its first Electrs call; a response it publishes on the way
\* reaches the relays or not.
Receive(sent) ==
    /\ hpc = "recv"
    /\ ~lagged
    /\ channel /= <<>>
    /\ LET e == Head(channel)
           plan == Plan(build, e) IN
       /\ current' = e
       /\ channel' = Tail(channel)
       /\ head_wait' = 0
       /\ rpcs' = 0
       /\ gate_uses' = 0
       /\ acc' = <<0, 0>>
       /\ txids' = <<>>
       /\ fetched' = {}
       /\ summed' = <<>>
       /\ stored_pairing' = IF Pairs(build, e) THEN e.sender ELSE stored_pairing
       /\ timed_out' = FALSE
       /\ CASE plan = "drop" ->
                 /\ response' = NoResponse
                 /\ outcome' = [NoOutcome EXCEPT !.returned = DropResult(build, e)]
                 /\ hpc' = OnHandlerResult(build, DropResult(build, e))
                 /\ todo' = <<>>
            [] plan = "error" ->
                 /\ response' = IF sent THEN Response(build, e, "error", <<0, 0>>, <<>>)
                                ELSE NoResponse
                 /\ outcome' = [lookup |-> "none",
                                sent |-> IF sent THEN "ok" ELSE "failed",
                                returned |-> IF sent THEN "ok" ELSE "err",
                                publishes |-> 1]
                 /\ hpc' = OnHandlerResult(build, IF sent THEN "ok" ELSE "err")
                 /\ todo' = <<>>
            [] plan = "reject" -> Conclude(e, FALSE, sent, <<0, 0>>, <<>>)
            [] OTHER ->
                 /\ response' = NoResponse
                 /\ outcome' = NoOutcome
                 /\ hpc' = "call"
                 /\ todo' = LookupCalls(build, e.content)
    /\ UNCHANGED <<build, paired, lagged, lags, closed, arrivals>>
    /\ UNCHANGED <<deriveVars, backendVars, gateVars, callVars, workVars>>

\* notifications.recv() reports that the receiver lagged behind.
RecvLagged ==
    /\ hpc = "recv"
    /\ lagged
    /\ lagged' = FALSE
    /\ lags' = lags + 1
    /\ hpc' = OnRecvError(build, "lagged")
    /\ UNCHANGED <<build, paired, channel, closed, arrivals, current, todo, rpcs,
                   gate_uses, acc, txids, fetched, summed, stored_pairing, timed_out, response, outcome, head_wait>>
    /\ UNCHANGED <<deriveVars, backendVars, gateVars, callVars, workVars>>

\* notifications.recv() reports that the channel is closed.
RecvClosed ==
    /\ hpc = "recv"
    /\ ~lagged
    /\ channel = <<>>
    /\ closed
    /\ hpc' = OnRecvError(build, "closed")
    /\ UNCHANGED <<build, paired, channel, lagged, lags, closed, arrivals, current, todo, rpcs,
                   gate_uses, acc, txids, fetched, summed, stored_pairing, timed_out, response, outcome, head_wait>>
    /\ UNCHANGED <<deriveVars, backendVars, gateVars, callVars, workVars>>

\* Faulty variant: every failed call ends the lookup.
EveryFailureFatal(b, content, call) == TRUE
\* The loop uses the client with the gate (umbrel-balancebridge electrs.rs);
\* the client of app/server has none.
Gated(b) == b = "nostr_handler"

\* Whether the failure of the call at the head of todo ends the lookup: the
\* calls for derived addresses and the history call of nostr.rs absorb it.
Fatal(b, content, call) ==
    IF b = "nostr" THEN call = "balance"
    ELSE ~is_xpub(content)

\* An Electrs call of the lookup has returned v or an error: the lookup adds
\* the value to what it has gathered and goes on to its next call, comes to
\* its end after the last one, or fails; what it gathered goes out of scope
\* when it ends.
AfterCall(ok, v, sent) ==
    LET call == Head(todo)
        acc1 == IF ok /\ call = "balance"
                THEN Accumulated(build, current.content, acc, v) ELSE acc
        txids1 == IF ok /\ call = "txs" THEN Gathered(build, txids, v) ELSE txids IN
    /\ fetched' = IF ok /\ call = "txs" THEN fetched \cup Range(v) ELSE fetched
    /\ summed' = IF ok /\ call = "balance" THEN Append(summed, v) ELSE summed
    /\ \/ /\ ok /\ call = "balance" /\ Overflows(build, current.content, acc, v)
          /\ Panic
          /\ acc' = <<0, 0>>
          /\ txids' = <<>>
       \/ IF ~ok /\ Fatal(build, current.content, call)
          THEN /\ Conclude(current, FALSE, sent, <<0, 0>>, <<>>)
               /\ acc' = <<0, 0>>
               /\ txids' = <<>>
          ELSE IF Tail(todo) = <<>>
          THEN /\ \E collected \in CollectOrders(build, current.content, txids1) :
                      Conclude(current, TRUE, sent, acc1,
                               FinalTxs(build, current.content, collected))
               /\ acc' = <<0, 0>>
               /\ txids' = <<>>
          ELSE /\ todo' = Tail(todo)
               /\ hpc' = "call"
               /\ acc' = acc1
               /\ txids' = txids1
               /\ UNCHANGED <<response, outcome>>

\* The lookup makes its next Electrs call; the gated client acquires its gate
\* first. The call reaches the backend, or fails before (the address does not
\* parse, the client is cooling down).
StartCall(reaches, sent) ==
    /\ hpc = "call"
    /\ reaches => AddressParses(build, current.content)
    /\ gate_uses' = IF Gated(build) THEN gate_uses + 1 ELSE gate_uses
    /\ IF reaches
       THEN /\ hpc' = "await"
            /\ rpcs' = rpcs + 1
            /\ UNCHANGED <<todo, acc, txids, fetched, summed, response, outcome>>
       ELSE /\ AfterCall(FALSE, <<>>, sent)
            /\ UNCHANGED rpcs
    /\ UNCHANGED <<build, paired, stored_pairing, timed_out, channel, lagged, lags, closed, arrivals,
                   current, head_wait>>
    /\ UNCHANGED <<deriveVars, backendVars, gateVars, callVars, workVars>>

\* The awaited Electrs call returns a value or an error.
CallReturns(ok, v, sent) ==
    /\ hpc = "await"
    /\ AfterCall(ok, v, sent)
    /\ UNCHANGED <<build, paired, stored_pairing, timed_out, channel, lagged, lags, closed, arrivals,
                   current, rpcs, gate_uses, head_wait>>
    /\ UNCHANGED <<deriveVars, backendVars, gateVars, callVars, workVars>>

\* A second passes while the loop awaits an Electrs call and delivered events
\* wait in the channel.
WaitTick ==
    /\ hpc = "await"
    /\ channel /= <<>>
    /\ head_wait < MaxDelay
    /\ head_wait' = head_wait + 1
    /\ UNCHANGED <<build, paired, channel, lagged, lags, closed, arrivals, current, hpc, todo,
                   rpcs, gate_uses, acc, txids, fetched, summed, stored_pairing, timed_out, response, outcome>>
    /\ UNCHANGED <<deriveVars, backendVars, gateVars, callVars, workVars>>

\* -------------------------------------------------------- derive_addresses
\* The two chains of an extended key, in the order derive_addresses walks
\* them: m/0/i (external, receiving) and m/1/i (internal, change).
Chains == <<"external", "internal">>
\* An extended key, by what derive_addresses does with it: whether
\* Xpub::from_str parses it, and the indices of each chain at which
\* derive_address_from_path fails.
Xpubs == [parses : BOOLEAN,
          fails : [{"external", "internal"} -> SUBSET (0 .. MaxGap - 1)]]
\* The address derived at index i of a chain (distinct paths give distinct
\* addresses).
derive_address_from_path(chain, i) == <<chain, i>>

\* Faulty variant: the list of the previous call is filled further.
ReusedVec(old) == old
\* let mut addresses = Vec::new();
NewVec(old) == <<>>
\* Faulty variant: a failed index is skipped and the chain goes on.
SkipIndex(chain, i) == [chain |-> chain, i |-> i + 1]
\* The chain that follows a chain; after the internal one the function returns.
NextChain(chain) == IF chain = "external" THEN "internal" ELSE "done"
\* `break`: a failure at index i ends the loop of its chain.
AfterFailure(chain, i) == [chain |-> NextChain(chain), i |-> 0]
\* Faulty variant: the address is put in front of the list.
push_front(list, a) == <<a>> \o list
\* addresses.push(addr)
push(list, a) == Append(list, a)
\* `for i in 0..gap_limit`: the position after index i of a chain, and the
\* position a loop is entered or left at.
Norm(pos, gap) ==
    IF pos.chain /= "done" /\ pos.i >= gap
    THEN [chain |-> IF gap = 0 THEN "done" ELSE NextChain(pos.chain), i |-> 0]
    ELSE pos

\* derive_addresses(xpub, gap_limit) is called: a key that does not parse
\* makes it return an error, otherwise it enters its first loop.
derive_call(gap) ==
    /\ dpc \in {"idle", "done"}
    /\ derivations < MaxDerivations
    /\ derivations = 0 \/ gap = gap_limit
    /\ gap_limit' = gap
    /\ derivations' = derivations + 1
    /\ previous' = addresses
    /\ IF ~xpub.parses
       THEN /\ dpc' = "failed"
            /\ UNCHANGED <<di, addresses>>
       ELSE LET pos == Norm([chain |-> Chains[1], i |-> 0], gap) IN
            /\ dpc' = pos.chain
            /\ di' = pos.i
            /\ addresses' = NewVec(addresses)
    /\ UNCHANGED xpub
    /\ UNCHANGED <<backendVars, gateVars, callVars, workVars, loopVars>>

\* One iteration of the loop over a chain: the address of index i is derived
\* and pushed, or the derivation fails and the loop is left.
derive_step ==
    /\ dpc \in {"external", "internal"}
    /\ LET pos == IF di \in xpub.fails[dpc]
                  THEN Norm(AfterFailure(dpc, di), gap_limit)
                  ELSE Norm([chain |-> dpc, i |-> di + 1], gap_limit) IN
       /\ addresses' = IF di \in xpub.fails[dpc] THEN addresses
                       ELSE push(addresses, derive_address_from_path(dpc, di))
       /\ dpc' = pos.chain
       /\ di' = pos.i
    /\ UNCHANGED <<xpub, gap_limit, derivations, previous>>
    /\ UNCHANGED <<backendVars, gateVars, callVars, workVars, loopVars>>

\* A key that parses and derives at every index.
GoodXpub == [parses |-> TRUE, fails |-> [c \in {"external", "internal"} |-> {}]]
\* derive_addresses has not been called.
DeriveNew ==
    /\ gap_limit = 0
    /\ dpc = "idle"
    /\ di = 0
    /\ addresses = <<>>
    /\ derivations = 0
    /\ previous = <<>>

\* ------------------------------------------------------------ specification
\* ElectrsClient::new: the gate holds one permit, no cooldown is set and
\* last_call is the instant of construction.
ElectrsNew ==
    /\ cooldown_until = NoInstant
    /\ last_call = now
    /\ last_call_lock = NoWorker
    /\ wake_at = NoInstant
    /\ permits = 1
    /\ waiters = <<>>
    /\ pc = [c \in Callers |-> "idle"]
    /\ op = [c \in Callers |-> "balance"]
    /\ deadline = [c \in Callers |-> NoInstant]
    /\ result = [c \in Callers |-> NoResult]
    /\ log = [c \in Callers |-> NoLog]
    /\ worker = [c \in Callers |-> NoTask]
    /\ orphans = EmptyBag

\* The event loop before its first recv(): nothing delivered, nothing handled.
LoopNew ==
    /\ channel = <<>>
    /\ lagged = FALSE
    /\ lags = 0
    /\ closed = FALSE
    /\ arrivals = 0
    /\ acc = <<0, 0>>
    /\ txids = <<>>
    /\ fetched = {}
    /\ summed = <<>>
    /\ stored_pairing = "none"
    /\ timed_out = FALSE
    /\ outcome = NoOutcome
    /\ current = NoEvent
    /\ hpc = "recv"
    /\ todo = <<>>
    /\ rpcs = 0
    /\ gate_uses = 0
    /\ response = NoResponse
    /\ head_wait = 0

\* The shared client under concurrent callers, against a backend that answers
\* or hangs.
Init ==
    /\ backend_hangs \in BOOLEAN
    /\ backend_utxos = UtxoResponses
    /\ backend_balances = BalanceAnswers
    /\ backend_histories = HistoryAnswers
    /\ backend_pings = 0
    /\ ElectrsNew
    /\ build = "nostr_handler" /\ paired = FALSE
    /\ LoopNew
    /\ xpub = GoodXpub /\ DeriveNew

\* A task calls get_address_balance or get_address_txs on the shared client.
Call(c) == \E o \in {"balance", "txs"} : Issue(c, o)
\* The gate admits the call; its address parses or not.
Admission(c) == \E ok \in BOOLEAN : Admit(c, ok)

Next ==
    \/ \E c \in Callers : Call(c)
    \/ \E c \in Callers : Admission(c)
    \/ \E c \in Callers : Complete(c)
    \/ \E c \in Callers : TimeoutRetry(c)
    \/ \E c \in Callers : TimeoutFail(c)
    \/ \E c \in Callers : Forget(c)
    \/ \E c \in Joined : RateLimit(c, worker[c])
    \/ \E c \in Joined : Wake(c, worker[c])
    \/ \E c \in Joined : AnswerHistory(c, worker[c])
    \/ \E c \in Joined : AnswerUnspent(c, worker[c])
    \/ \E c \in Joined : AnswerError(c, worker[c])
    \/ \E t \in Detached : RateLimit(Orphan, t)
    \/ \E t \in Detached : Wake(Orphan, t)
    \/ \E t \in Detached : AnswerHistory(Orphan, t)
    \/ \E t \in Detached : AnswerUnspent(Orphan, t)
    \/ \E t \in Detached : AnswerError(Orphan, t)
    \/ TickTimer
    \/ TickSecond

Spec == Init /\ [][Next]_vars

\* A step of the runtime that takes no time: the gate admits the waiter at the
\* head of its queue, a finished or timed-out attempt is noticed, a thread
\* inside rate_limit goes on.
Progress ==
    \/ \E c \in Callers : Admission(c) \/ Complete(c) \/ TimeoutRetry(c) \/ TimeoutFail(c)
    \/ \E c \in Joined : RateLimit(c, worker[c]) \/ Wake(c, worker[c])
    \/ \E t \in Detached : RateLimit(Orphan, t) \/ Wake(Orphan, t)

\* What the runtime guarantees: a returned call is taken by its caller, the
\* steps that can be taken again and again are taken, and time passes.
FairGate ==
    /\ WF_vars(\E c \in Callers : Forget(c))
    /\ SF_vars(Progress)
    /\ SF_vars(TickTimer)

SpecFair == Init /\ [][Next]_vars /\ FairGate

\* The shared client used by the lookups and by a health probe.
NextProbe ==
    \/ Next
    \/ test_connectivity
    \/ PingAnswered

SpecProbe == Init /\ [][NextProbe]_vars

\* ------------------------------------------- the balance computation alone
\* One get_address_balance call on a fresh client, for an address with a
\* non-empty history whose UTXO list is any of UtxoLists.
InitSum ==
    /\ backend_hangs = FALSE
    /\ backend_utxos \in {{l} : l \in UtxoLists}
    /\ backend_balances = BalanceAnswers
    /\ backend_histories = HistoryAnswers
    /\ backend_pings = 0
    /\ ElectrsNew
    /\ build = "nostr_handler" /\ paired = FALSE
    /\ LoopNew
    /\ xpub = GoodXpub /\ DeriveNew

FirstCaller == 1

NextSum ==
    \/ Issue(FirstCaller, "balance")
    \/ Admit(FirstCaller, TRUE)
    \/ RateLimit(FirstCaller, worker[FirstCaller])
    \/ Wake(FirstCaller, worker[FirstCaller])
    \/ AnswerHistory(FirstCaller, worker[FirstCaller])
    \/ AnswerUnspent(FirstCaller, worker[FirstCaller])
    \/ Complete(FirstCaller)
    \/ TickTimer

SpecSum == InitSum /\ [][NextSum]_vars

\* ------------------------------------------------------- the event loops
\* One of the three event loops on a fresh client; the two handlers, which
\* hold a PairingManager, with or without a paired Android app. The backend
\* holds one address: the used address of Scenario A.
InitLoop ==
    /\ backend_hangs = FALSE
    /\ backend_utxos = UtxoResponses
    /\ backend_balances = {ScenarioBalance}
    /\ backend_histories = {ScenarioHistory}
    /\ backend_pings = 0
    /\ ElectrsNew
    /\ build \in Builds
    /\ paired \in (IF build = "nostr" THEN {FALSE} ELSE BOOLEAN)
    /\ LoopNew
    /\ xpub = GoodXpub /\ DeriveNew

\* The head of the channel is received; a publication of its handler succeeds
\* or fails.
Handle == \E sent \in BOOLEAN : Receive(sent)
\* The next call of the lookup reaches the backend or fails before.
CallElectrs == \E reaches, sent \in BOOLEAN : StartCall(reaches, sent)
\* The call answers one of the values of its kind.
CallSucceeds ==
    /\ hpc = "await"
    /\ \E v \in Answers(Head(todo)), sent \in BOOLEAN : CallReturns(TRUE, v, sent)
\* The call fails (a timeout, a cooldown, a backend error).
CallFails == \E sent \in BOOLEAN : CallReturns(FALSE, <<>>, sent)

NextLoop ==
    \/ \E e \in Events : Arrive(e)
    \/ Close
    \/ Handle
    \/ RecvLagged
    \/ RecvClosed
    \/ CallElectrs
    \/ CallSucceeds
    \/ CallFails
    \/ WaitTick

SpecLoop == InitLoop /\ [][NextLoop]_vars

\* The event loop on relays that also deliver the responses of the service
\* back to it.
NextEcho == NextLoop \/ Echo
SpecEcho == InitLoop /\ [][NextEcho]_vars

\* The event loop as the runtime schedules it: the task of the loop is polled
\* whenever recv() has an event or an error to return, and every Electrs call
\* it awaits returns (with a value, an error or a timeout).
FairLoop ==
    /\ WF_vars(Handle)
    /\ WF_vars(RecvLagged)
    /\ WF_vars(CallElectrs)
    /\ WF_vars(CallSucceeds \/ CallFails)
SpecLoopLive == InitLoop /\ [][NextLoop]_vars /\ FairLoop

\* ----------------------------------------------------- derive_addresses alone
\* derive_addresses is called, once or twice, on any key with any gap limit.
InitDerive ==
    /\ backend_hangs = FALSE
    /\ backend_utxos = UtxoResponses
    /\ backend_balances = BalanceAnswers
    /\ backend_histories = HistoryAnswers
    /\ backend_pings = 0
    /\ ElectrsNew
    /\ build = "nostr_handler" /\ paired = FALSE
    /\ LoopNew
    /\ xpub \in Xpubs
    /\ DeriveNew

NextDerive ==
    \/ \E gap \in 0 .. MaxGap : derive_call(gap)
    \/ derive_step

SpecDerive == InitDerive /\ [][NextDerive]_vars

\* ------------------------------------------------------- one lookup alone
\* One event is delivered to one of the loops and handled, against a backend
\* that holds addresses with different balances and overlapping histories.
InitLookup ==
    /\ backend_hangs = FALSE
    /\ backend_utxos = UtxoResponses
    /\ backend_balances = BalanceAnswers
    /\ backend_histories = HistoryAnswers
    /\ backend_pings = 0
    /\ ElectrsNew
    /\ build \in Builds
    /\ paired \in (IF build = "nostr" THEN {FALSE} ELSE BOOLEAN)
    /\ LoopNew
    /\ xpub = GoodXpub /\ DeriveNew

\* The event arrives.
FirstArrives == arrivals = 0 /\ \E e \in Events : Arrive(e)

NextLookup ==
    \/ FirstArrives
    \/ Handle
    \/ CallElectrs
    \/ CallSucceeds
    \/ CallFails

SpecLookup == InitLookup /\ [][NextLookup]_vars

\* ---------------------------------------- one lookup through the gated client
\* The request for an extended key is delivered to nostr_handler.rs, whose
\* perform_lookup calls get_address_balance and get_address_txs for each
\* derived address in turn on the gated client, against a backend that
\* answers, answers late or hangs.
InitScan ==
    /\ backend_hangs \in BOOLEAN
    /\ backend_utxos = UtxoResponses
    /\ backend_balances = BalanceAnswers
    /\ backend_histories = HistoryAnswers
    /\ backend_pings = 0
    /\ ElectrsNew
    /\ build = "nostr_handler" /\ paired = FALSE
    /\ LoopNew
    /\ xpub = GoodXpub /\ DeriveNew

\* The transaction hashes of a history as the ids the lookup gathers
\* (h.tx_hash.to_string()).
TxIds(hs) == [i \in 1 .. Len(hs) |-> IF hs[i] = "t1" THEN 1 ELSE 2]

\* The request arrives.
ScanArrives == arrivals = 0 /\ \E e \in Events : is_xpub(e.content) /\ Arrive(e)

\* perform_lookup enters the next call of its loop.
ScanCall ==
    /\ hpc = "call"
    /\ todo /= <<>>
    /\ Issue(FirstCaller, Head(todo))

\* The call returns to perform_lookup: `if let Ok(..)` adds its value to the
\* totals or to the ids and drops an error; after the last call the response
\* is published.
ScanReturn(sent) ==
    /\ hpc = "call"
    /\ pc[FirstCaller] = "done"
    /\ LET r == result[FirstCaller] IN
          AfterCall(r.kind = "ok",
                    IF r.kind /= "ok" THEN <<>>
                    ELSE IF Head(todo) = "balance" THEN r.balance ELSE TxIds(r.txs),
                    sent)
    /\ timed_out' = (timed_out \/ log[FirstCaller].cooldowns /= <<>>)
    /\ gate_uses' = gate_uses + 1
    /\ rpcs' = rpcs + (IF log[FirstCaller].phys > 0 THEN 1 ELSE 0)
    /\ pc' = [pc EXCEPT ![FirstCaller] = "idle"]
    /\ op' = [op EXCEPT ![FirstCaller] = "balance"]
    /\ result' = [result EXCEPT ![FirstCaller] = NoResult]
    /\ log' = [log EXCEPT ![FirstCaller] = NoLog]
    /\ UNCHANGED <<build, paired, stored_pairing, channel, lagged, lags, closed, arrivals,
                   current, head_wait>>
    /\ UNCHANGED <<deriveVars, backendVars, gateVars, deadline, workVars>>

\* Time passes while a call is awaited: the loop of perform_lookup goes from
\* one call to the next without a pause.
ScanTick == ~(hpc = "call" /\ pc[FirstCaller] = "idle") /\ TickTimer

NextScan ==
    \/ ScanArrives
    \/ Handle
    \/ ScanCall
    \/ Admit(FirstCaller, TRUE)
    \/ Complete(FirstCaller)
    \/ TimeoutRetry(FirstCaller)
    \/ TimeoutFail(FirstCaller)
    \/ \E sent \in BOOLEAN : ScanReturn(sent)
    \/ \E c \in Joined : RateLimit(c, worker[c])
    \/ \E c \in Joined : Wake(c, worker[c])
    \/ \E c \in Joined : AnswerHistory(c, worker[c])
    \/ \E c \in Joined : AnswerUnspent(c, worker[c])
    \/ \E c \in Joined : AnswerError(c, worker[c])
    \/ \E t \in Detached : RateLimit(Orphan, t)
    \/ \E t \in Detached : Wake(Orphan, t)
    \/ \E t \in Detached : AnswerHistory(Orphan, t)
    \/ \E t \in Detached : AnswerUnspent(Orphan, t)
    \/ \E t \in Detached : AnswerError(Orphan, t)
    \/ ScanTick

SpecScan == InitScan /\ [][NextScan]_vars

\* ====================================================================== claims

\* C1: under concurrent lookups on one shared client, at most one backend RPC
\* is in flight at the backend at any time (work started by a timed-out
\* attempt counts until it finishes).
PhysicalInFlight ==
    Cardinality({c \in Joined : worker[c].pc \in {"history", "unspent"}})
    + BagCardinality([t \in {x \in Detached : x.pc \in {"history", "unspent"}} |-> orphans[t]])
C1_SingleFlight == PhysicalInFlight <= 1

\* C2: a call issued while a cooldown deadline is ahead fails at once with the
\* cooling-down error, without admission, attempt or physical call; and a call
\* is only ever refused as cooling down while a deadline is ahead.
C2_CooldownFailsFast ==
    \A c \in Callers :
        /\ log[c].cd_at_issue /= NoInstant =>
              /\ pc[c] = "done" /\ result[c].kind = "cooling"
              /\ log[c].attempts = 0 /\ log[c].phys = 0 /\ log[c].elapsed = 0
              /\ worker[c] = NoTask
        /\ (pc[c] = "done" /\ result[c].kind = "cooling") =>
              /\ cooldown_until /= NoInstant /\ cooldown_until > 0
              /\ log[c].attempts = 0 /\ log[c].phys = 0
        /\ Active(c) => log[c].cd_at_issue = NoInstant
C2_Witness ==
    \E c \in Callers :
        /\ pc[c] = "done" /\ result[c].kind = "cooling"
        /\ log[c].cd_at_issue /= NoInstant /\ log[c].phys = 0

\* C5: get_address_balance makes at most two attempts: the first attempt
\* exceeding its 90 s deadline sets a 10 s cooldown and the whole sequence is
\* retried once under a fresh 90 s deadline; the retry timing out sets a 20 s
\* cooldown and returns a timeout error; there is no third attempt.
C5_Step(c) ==
    /\ log'[c].attempts <= 2
    /\ (pc[c] = "attempt1" /\ pc'[c] = "attempt2") =>
          /\ log[c].elapsed = 90000 /\ deadline[c] = now
          /\ cooldown_until' = 10000
          /\ deadline'[c] = 90000
          /\ worker'[c].pc = "rate_limit" /\ worker'[c].calls = <<>>
          /\ log[c].attempts = 1 /\ log'[c].attempts = 2
          /\ permits' = 0
    /\ (pc[c] = "attempt1" /\ pc'[c] = "done") => result'[c].kind /= "timeout"
    /\ (pc[c] = "attempt2" /\ pc'[c] = "done" /\ result'[c].kind = "timeout") =>
          /\ log[c].elapsed = 180000 /\ deadline[c] = now
          /\ cooldown_until' = 20000
          /\ log[c].attempts = 2
    /\ pc[c] = "attempt2" => pc'[c] \in {"attempt2", "done"}
C5_TwoAttempts == [][\A c \in Callers : op[c] = "balance" => C5_Step(c)]_vars
C5_Witness ==
    \E c \in Callers :
        /\ op[c] = "balance" /\ pc[c] = "done" /\ result[c].kind = "timeout"
        /\ log[c].attempts = 2 /\ log[c].cooldowns = <<10000, 20000>>
        /\ log[c].elapsed = 180000 /\ cooldown_until = 20000

\* C6: get_address_txs follows the protocol of get_address_balance (cooldown
\* check, gate acquire, cooldown re-check), makes exactly one attempt under a
\* single 45 s deadline, and on timeout sets a 10 s cooldown and returns an
\* error without retrying.
ProtocolStep(c, limit) ==
    /\ (pc[c] = "idle" /\ pc'[c] = "done") =>
          /\ cooldown_until > now /\ result'[c].kind = "cooling"
          /\ UNCHANGED <<permits, waiters, worker, cooldown_until>>
    /\ (pc[c] = "idle" /\ pc'[c] = "wait_gate") =>
          /\ ~(cooldown_until > now) /\ waiters' = Append(waiters, c)
          /\ UNCHANGED <<permits, worker>>
    /\ (pc[c] = "wait_gate" /\ pc'[c] = "done") =>
          /\ permits = 1 /\ cooldown_until > now /\ result'[c].kind = "cooling"
          /\ UNCHANGED <<permits, worker, cooldown_until>>
    /\ (pc[c] = "wait_gate" /\ pc'[c] = "attempt1") =>
          /\ permits = 1 /\ permits' = 0 /\ ~(cooldown_until > now)
          /\ deadline'[c] = limit /\ log'[c].attempts = 1
          /\ worker'[c].pc /= "none"
    /\ (Active(c) /\ pc'[c] = "done") => permits = 0 /\ permits' = 1
C6_Step(c) ==
    /\ ProtocolStep(c, 45000)
    /\ log'[c].attempts <= 1
    /\ pc[c] = "attempt1" => pc'[c] \in {"attempt1", "done"}
    /\ (pc[c] = "attempt1" /\ pc'[c] = "done" /\ result'[c].kind = "timeout") =>
          /\ log[c].elapsed = 45000 /\ deadline[c] = now
          /\ cooldown_until' = 10000
C6_TxsSingleAttempt ==
    [][\A c \in Callers : /\ op'[c] = "txs" => C6_Step(c)
                          /\ op'[c] = "balance" => ProtocolStep(c, 90000)]_vars
C6_Witness ==
    \E c \in Callers :
        /\ op[c] = "txs" /\ pc[c] = "done" /\ result[c].kind = "timeout"
        /\ log[c].attempts = 1 /\ log[c].cooldowns = <<10000>>
        /\ log[c].elapsed = 45000 /\ cooldown_until = 10000

\* C7 (as stated): with a backend that always times out, a get_address_balance
\* call fails when its first 90 s deadline expires, leaving a 10 s cooldown.
C7_FailsAtFirstDeadline ==
    backend_hangs =>
        \A c \in Callers :
            (op[c] = "balance" /\ pc[c] = "done" /\ result[c].kind = "timeout") =>
                log[c].elapsed = 90000 /\ cooldown_until = 10000
\* C7 (amended): with a backend that always times out, an admitted
\* get_address_balance call fails when the 90 s deadline of its retry expires,
\* 180 s after admission, leaving a 20 s cooldown; a call issued 1 s after that
\* failure fails immediately with the cooling-down error and causes no backend
\* interaction.
C7_FailsAtRetryDeadline ==
    backend_hangs =>
        \A c \in Callers :
            /\ (op[c] = "balance" /\ pc[c] = "done" /\ log[c].attempts > 0
                  /\ result[c].kind /= "error") =>
                  /\ result[c].kind = "timeout"
                  /\ log[c].elapsed = 180000 /\ log[c].attempts = 2
                  /\ cooldown_until = 20000
            /\ (op[c] = "balance" /\ Active(c)) => log[c].elapsed <= 180000
            /\ log[c].cd_at_issue = 20000 - 1000 =>
                  /\ pc[c] = "done" /\ result[c].kind = "cooling"
                  /\ log[c].elapsed = 0 /\ log[c].attempts = 0 /\ log[c].phys = 0
                  /\ worker[c] = NoTask
C7_Witness ==
    /\ backend_hangs
    /\ \E c \in Callers :
          /\ pc[c] = "done" /\ result[c].kind = "cooling"
          /\ log[c].cd_at_issue = 19000 /\ log[c].phys = 0

\* C8: an empty history makes the balance lookup return (0,0) without a
\* UTXO-listing call; within an attempt the history call precedes the
\* UTXO-listing call, which is issued only when the history is non-empty.
C8_FastPath ==
    \A c \in Joined :
        LET t == worker[c] IN
        t.op = "balance" =>
            /\ t.calls \in {<<>>, <<"history">>, <<"history", "unspent">>}
            /\ t.hist = <<<<>>>> =>
                  /\ t.pc = "done" /\ t.res = OkBalance(<<0, 0>>)
                  /\ t.calls = <<"history">>
            /\ "unspent" \in {t.calls[i] : i \in 1 .. Len(t.calls)} =>
                  t.hist /= <<>> /\ t.hist /= <<<<>>>>
            /\ t.pc \in {"rate_limit2", "sleeping2", "unspent"} =>
                  t.hist /= <<>> /\ t.hist /= <<<<>>>>
C8_Witness ==
    \E c \in Joined :
        /\ worker[c].op = "balance" /\ worker[c].hist = <<<<>>>>
        /\ worker[c].pc = "done" /\ worker[c].res.balance = <<0, 0>>
        /\ worker[c].calls = <<"history">>

\* C9: for every UTXO list returned for an address with non-empty history the
\* confirmed amount is the sum of the values with height > 0 and the
\* unconfirmed amount the sum of those with height = 0, each capped at the
\* maximum of the word instead of wrapping.
RECURSIVE PlainSum(_, _)
PlainSum(utxos, confirmed) ==
    IF utxos = <<>> THEN 0
    ELSE (IF (Head(utxos).height > 0) = confirmed THEN Head(utxos).value ELSE 0)
         + PlainSum(Tail(utxos), confirmed)
Capped(n) == IF n > 2 ^ WordBits - 1 THEN 2 ^ WordBits - 1 ELSE n
ExpectedBalance(utxos) == <<Capped(PlainSum(utxos, TRUE)), Capped(PlainSum(utxos, FALSE))>>
C9_SaturatingSums ==
    \A c \in Joined :
        LET t == worker[c] IN
        (t.op = "balance" /\ t.pc = "done" /\ t.calls = <<"history", "unspent">>
           /\ t.res.kind = "ok") =>
            /\ t.hist /= <<>> /\ t.hist /= <<<<>>>>
            /\ \E l \in backend_utxos : t.res.balance = ExpectedBalance(l)
C9_Witness ==
    \E c \in Joined : \E l \in backend_utxos :
        /\ worker[c].pc = "done" /\ worker[c].res.kind = "ok"
        /\ worker[c].calls = <<"history", "unspent">>
        /\ Len(l) = 2 /\ l[1].height > 0 /\ l[2].height > 0
        /\ l[1].value + l[2].value > 2 ^ WordBits - 1
        /\ worker[c].res.balance = <<2 ^ WordBits - 1, 0>>

\* C3: every published response carries a req tag equal to the req tag of the
\* request that triggered it, and the same value in its payload.
C3_ResponseEchoesReq ==
    response /= NoResponse =>
        /\ current.req /= <<>>
        /\ response.req = <<Head(current.req)>>
        /\ response.payload_req = <<Head(current.req)>>

\* C4: a request event without a req tag produces no published response and
\* triggers no backend call, whatever its payload.
C4_NoReqNoResponse ==
    (current /= NoEvent /\ current.req = <<>>) => response = NoResponse /\ rpcs = 0

\* C10: a slow lookup never delays the reception and handling of the events
\* that arrive after it: no delivered event waits in the channel while time
\* passes in a lookup.
C10_NoDelay == head_wait = 0

\* ----- C11
\* handle_event returns in this step: the event was received and dealt with
\* at once, or the lookup it started has come to its end.
HandlerReturns ==
    /\ Len(channel') < Len(channel) \/ hpc \in {"call", "await"}
    /\ hpc' \notin {"call", "await"}

\* C11: a failure while handling one event (a payload that cannot be read, a
\* lookup error, a response that cannot be published) never terminates the
\* loop: whenever handle_event returns, with an error or not, the loop is back
\* in recv().
C11_FailureKeepsLoop ==
    [][HandlerReturns => outcome'.returned /= "none" /\ hpc' = "recv"]_vars
\* A handling has failed, the loop is in recv() again and the next event is
\* there to be received.
C11_Witness ==
    /\ outcome.returned = "err"
    /\ hpc = "recv"
    /\ channel /= <<>>
    /\ ~lagged

\* ----- C12
\* C12: a lag of the receiver never terminates the loop: once the channel has
\* overwritten events, recv() reports the lag, the loop keeps listening and
\* the events delivered after the lag are received until the channel is empty.
C12_LagSkipsForward == lagged ~> (~lagged /\ channel = <<>> /\ hpc /= "stopped")
\* recv() has reported a lag and the loop has received the event delivered
\* after it (of the events delivered, all but the ones overwritten).
C12_Witness ==
    /\ lags > 0
    /\ ~lagged
    /\ channel = <<>>
    /\ current /= NoEvent
    /\ hpc /= "stopped"

\* ----- C13
\* C13: the response to a single-address query passes through one balance
\* fetch and one transaction-id fetch: its balance is the answer of the balance
\* call and its transaction list is the history the backend holds for the
\* address (for the answer <<1000, 500>> and a history of two entries:
\* confirmed 1000, unconfirmed 500 and the two transaction ids).
C13_AddressPassesThrough ==
    (response.status = "ok" /\ is_bitcoin_address(current.content)) =>
        /\ response.balance \in BalanceAnswers
        /\ response.txs \in HistoryAnswers

\* ----- C14
\* C14: in an extended-key lookup (nostr_handler.rs and the legacy handler; nostr.rs
\* has none) a failed balance or history call for a derived address is
\* skipped: the lookup as a whole fails only if no address could be derived.
C14_PerAddressFailureSkipped ==
    (is_xpub(current.content) /\ build /= "nostr" /\ outcome.lookup = "failed") =>
        ~Derives(current.content)
\* An extended-key lookup has succeeded although one of its two balance calls
\* failed: its total is the answer of the other.
C14_Witness ==
    /\ is_xpub(current.content)
    /\ build = "nostr_handler"
    /\ outcome.lookup = "ok"
    /\ response.status = "ok"
    /\ response.balance = <<1000, 500>>

\* ----- C15
\* C15: the transaction list of every extended-key result has no duplicates
\* and is in ascending order, and its ids are those the history calls of the
\* lookup that succeeded have returned.
Ascending(seq) == \A i \in 1 .. Len(seq) - 1 : seq[i] < seq[i + 1]
C15_SortedUnion ==
    (is_xpub(current.content) /\ response.status = "ok") =>
        /\ Ascending(response.txs)
        /\ Range(response.txs) = fetched
\* An extended-key result made of two histories that share an id and are not
\* sorted: <<2, 1>> and <<3, 2>> give <<1, 2, 3>>.
C15_Witness ==
    /\ is_xpub(current.content)
    /\ response.status = "ok"
    /\ fetched = {1, 2, 3}
    /\ response.txs = <<1, 2, 3>>

C17_FailureIsAnswered ==
    (outcome.lookup = "failed" /\ outcome.sent /= "failed") =>
        /\ response.status = "error"
        /\ response.req /= <<>>
        /\ response.req = get_tag(current)

\* ----- C18
\* C18: when the payload of an event is not valid JSON for a lookup request,
\* no response is published for it and the loop goes on.
C18_MalformedIsIgnored ==
    current.content = "garbage" =>
        /\ response = NoResponse
        /\ hpc = "stopped" => closed

\* ----- C19
\* C19: when a paired peer is configured, only the events of that sender are
\* processed: an event of any other sender triggers no backend call and no
\* response.
C19_OnlyPairedSender ==
    (paired /\ current /= NoEvent /\ current.sender /= "android") =>
        /\ rpcs = 0
        /\ response = NoResponse

\* ----- C20
\* C20: every response the service publishes has its payload encrypted to the
\* requester: no result and no error message is published in plaintext.
C20_ResponsesEncrypted == response /= NoResponse => response.enc

\* ----- C21
\* C21: every published response carries a recipient (p) tag whose value is
\* the public key of the sender of the request that triggered it.
C21_ResponseAddressedToSender == response /= NoResponse => current.sender \in response.p

\* ----- C22
\* The addresses of indices 0 .. n-1 of a chain, in ascending order.
ChainPrefix(chain, n) == [k \in 1 .. n |-> derive_address_from_path(chain, k - 1)]

\* C22: derive_addresses returns external addresses in ascending index order
\* followed by internal addresses in ascending index order, at most gap_limit
\* of each chain.
C22_ExternalThenInternal ==
    dpc = "done" =>
        \E ne, ni \in 0 .. gap_limit :
            addresses = ChainPrefix("external", ne) \o ChainPrefix("internal", ni)
\* A call with the largest gap limit on a key that derives everywhere has
\* returned both chains in full.
C22_Witness ==
    /\ dpc = "done"
    /\ gap_limit = MaxGap
    /\ Len(addresses) = 2 * MaxGap

\* ----- C23
\* The index at which the derivation of a chain first fails below the gap
\* limit, or the gap limit.
FirstFailure(chain) ==
    LET failing == {k \in 0 .. gap_limit - 1 : k \in xpub.fails[chain]} IN
    IF failing = {} THEN gap_limit
    ELSE CHOOSE k \in failing : \A other \in failing : k <= other

\* C23: a derivation failure at index k of a chain stops that chain only: the
\* result holds exactly the addresses of indices 0 .. k-1 of that chain, the
\* other chain is derived as if nothing had failed, and the call succeeds.
C23_FailureStopsOneChain ==
    /\ dpc = "failed" => ~xpub.parses
    /\ dpc = "done" =>
        addresses = ChainPrefix("external", FirstFailure("external"))
                    \o ChainPrefix("internal", FirstFailure("internal"))
\* Scenario C at the scale of the model: the external chain fails at index 1
\* (and would derive at index 2), the internal chain derives in full.
C23_Witness ==
    /\ dpc = "done"
    /\ gap_limit = MaxGap
    /\ xpub.fails["external"] = {1}
    /\ xpub.fails["internal"] = {}
    /\ Len(addresses) = 1 + MaxGap

\* ----- C24
\* C24: deriving twice from the same key with the same gap limit yields the
\* same list in the same order.
C24_Idempotent == (dpc = "done" /\ derivations = MaxDerivations) => addresses = previous
\* A second call has returned a list of several addresses.
C24_Witness ==
    /\ dpc = "done"
    /\ derivations = MaxDerivations
    /\ Len(addresses) > 1
    /\ Len(previous) > 1

\* ----- C25
\* An attempt of caller c has come back in time with a backend error.
AttemptFailed(c) == Active(c) /\ worker[c].pc = "done" /\ worker[c].res.kind = "error"

\* C25: a backend error that is not a timeout is returned at once: the call
\* ends with that error instead of starting another attempt, and the cooldown
\* deadline stays as it was; a deadline is written only by a step in which
\* an attempt has reached its deadline unanswered.
C25_ErrorReturnedAtOnce ==
    [][(\A c \in Callers :
           (AttemptFailed(c) /\ pc'[c] /= pc[c]) =>
               /\ pc'[c] = "done"
               /\ result'[c] = worker[c].res
               /\ log'[c].attempts = log[c].attempts
               /\ cooldown_until' = cooldown_until)
       /\ (cooldown_until' > cooldown_until =>
              \E c \in Callers :
                  Active(c) /\ now >= deadline[c] /\ worker[c].pc /= "done")]_vars
\* The retry of a balance lookup has returned the error of a physical backend
\* call: the call ended with it, the deadline set by the first timeout pending.
C25_Witness ==
    \E c \in Callers :
        /\ pc[c] = "done"
        /\ result[c].kind = "error"
        /\ log[c].attempts = 2
        /\ log[c].phys > 0
        /\ log[c].cooldowns = <<FIRST_COOLDOWN>>
        /\ cooldown_until > now

\* ----- C26
\* C26: any two consecutive physical history or UTXO-listing calls start at
\* least 100 ms apart, whichever lookup, attempt or thread issues them: a step
\* that starts a physical call is taken 100 ms or more after the instant
\* recorded in last_call, and records its own instant there (a call starts
\* as rate_limit returns).
C26_CallsSpaced ==
    [][PhysicalInFlight' > PhysicalInFlight =>
           /\ now - last_call >= MIN_SPACING
           /\ last_call' = now]_vars
\* The retry of a lookup has just started its UTXO listing, its history call
\* having been answered, while the blocking task of the timed-out first
\* attempt is still running.
C26_Witness ==
    \E c \in Callers :
        /\ pc[c] = "attempt2"
        /\ worker[c].pc = "unspent"
        /\ worker[c].calls = <<"history", "unspent">>
        /\ last_call = now
        /\ BagCardinality(orphans) > 0

\* ----- C27
\* C27: every physical round trip to the backend, the ping of
\* test_connectivity and warm_up included, is made by a caller that holds the
\* admission permit: while a round trip is in flight the permit is taken.
C27_NoBypass == (PhysicalInFlight + backend_pings > 0) => permits = 0

\* ----- C28
\* C28: a caller that passed the first cooldown check and waited for the
\* gate, and is admitted while a cooldown deadline is ahead, fails with the
\* cooling-down error; it starts no blocking task and no physical call, and
\* leaves the permit free and the deadline as it was.
C28_RecheckFailsFast ==
    [][\A c \in Callers :
          (pc[c] = "wait_gate" /\ pc'[c] /= "wait_gate" /\ cooldown_until > now) =>
              /\ pc'[c] = "done"
              /\ result'[c] = Cooling(cooldown_until, now)
              /\ worker'[c] = NoTask
              /\ log'[c].attempts = 0 /\ log'[c].phys = 0
              /\ PhysicalInFlight' = PhysicalInFlight
              /\ permits' = 1
              /\ cooldown_until' = cooldown_until]_vars
\* A call that saw no deadline when it was issued has been refused as cooling
\* down after its wait for the gate; the permit is free, the deadline ahead.
C28_Witness ==
    \E c \in Callers :
        /\ pc[c] = "done"
        /\ result[c] = Cooling(cooldown_until, now)
        /\ log[c].cd_at_issue = NoInstant
        /\ log[c].attempts = 0
        /\ cooldown_until > now
        /\ permits = 1

\* ----- C29
\* Caller c runs check_cooldown in this step: on entry of its call, or as the
\* gate admits it.
Checks(c) == pc[c] \in {"idle", "wait_gate"} /\ pc'[c] /= pc[c]

\* C29: check_cooldown fails with the remaining duration and leaves the
\* deadline unchanged while the deadline is in the future; otherwise it
\* succeeds and the cooldown state is None afterwards; and a deadline is
\* cleared only by such a check (there is no background timer).
C29_LazyReset ==
    [][(\A c \in Callers :
           Checks(c) =>
               IF cooldown_until /= NoInstant /\ now < cooldown_until
               THEN /\ pc'[c] = "done"
                    /\ result'[c].kind = "cooling"
                    /\ result'[c].remaining = cooldown_until - now
                    /\ cooldown_until' = cooldown_until
               ELSE /\ result'[c].kind /= "cooling"
                    /\ cooldown_until' = NoInstant)
       /\ ((cooldown_until /= NoInstant /\ cooldown_until' = NoInstant) =>
              \E c \in Callers : Checks(c))]_vars
\* The first timeout of a balance lookup set a deadline; the deadline passed
\* and the check of another call has cleared it.
C29_Witness ==
    \E c, d \in Callers :
        /\ pc[c] = "attempt2"
        /\ log[c].cooldowns = <<FIRST_COOLDOWN>>
        /\ pc[d] = "wait_gate"
        /\ cooldown_until = NoInstant

\* ----- C30
\* C30: the locks of the rate limiter timestamp and of the cooldown deadline
\* are held only around the read or write they protect: no thread sleeps
\* while it holds the last_call lock.
C30_NoSleepUnderLock == last_call_lock = NoWorker \/ wake_at <= now

\* ----- C33
\* The callers that hold the admission permit: those inside an attempt.
Holders == {c \in Callers : Active(c)}

\* C33: at most one caller holds the admission permit at any time, and every
\* return path gives it back: the permit is taken exactly while a call is
\* inside an attempt, so the gate is free whenever no call is in progress.
C33_PermitReleased ==
    /\ permits \in {0, 1}
    /\ Cardinality(Holders) = 1 - permits
\* A lookup has returned its timeout error with the blocking tasks of both
\* attempts still running, another call is queued, and the gate is free.
C33_Witness ==
    \E c \in Callers :
        /\ pc[c] = "done"
        /\ result[c].kind = "timeout"
        /\ BagCardinality(orphans) = 2
        /\ waiters /= <<>>
        /\ permits = 1

\* ----- C34
\* The call of caller c has been issued and has not returned.
Pending(c) == pc[c] \in {"wait_gate", "attempt1", "attempt2"}
\* The longest time a call spends between its admission and its return.
Longest(o) == IF o = "balance" THEN BALANCE_TIMEOUT + RETRY_TIMEOUT ELSE TXS_TIMEOUT
\* As many timed-out blocking tasks are running as the model follows.
OrphansFull == BagCardinality(orphans) = MaxOrphans

\* C34: every get_address_balance and get_address_txs call eventually returns,
\* even when the backend never answers: an admitted call is never older than
\* its two 90-second deadlines (one 45-second deadline for the history
\* lookup), and a call that waits for the gate or runs an attempt eventually
\* returns (as long as the model follows the blocking tasks left behind).
C34_EveryCallReturns ==
    /\ [](\A c \in Callers : Active(c) => log[c].elapsed <= Longest(op[c]))
    /\ \A c \in Callers : Pending(c) ~> (pc[c] = "done" \/ OrphansFull)
\* Against a backend that never answers, a call that had waited for the gate
\* behind a lookup that timed out twice has returned.
C34_Witness ==
    \E c \in Callers :
        /\ backend_hangs
        /\ pc[c] = "done"
        /\ result[c].kind = "cooling"
        /\ log[c].cd_at_issue = NoInstant
        /\ BagCardinality(orphans) = 2

\* ----- C35
\* C35: while a cooldown deadline is in the future no physical backend round
\* trip is started by anyone: no step that starts a history or UTXO-listing
\* call is taken with the deadline ahead.
C35_QuietWhileCooling ==
    [][PhysicalInFlight' > PhysicalInFlight => ~(cooldown_until > now)]_vars

\* ----- C36
\* Caller c calls set_cooldown in this step.
Sets(c) == Len(log'[c].cooldowns) > Len(log[c].cooldowns)

\* C36: the cooldown deadline is written only by the caller that holds the
\* admission permit, and a write never moves a deadline that is still ahead
\* to an earlier time, whatever the interleaving of the calls.
C36_WrittenByHolder ==
    [][(\A c \in Callers :
           Sets(c) =>
               /\ permits = 0
               /\ Holders = {c}
               /\ cooldown_until' /= NoInstant
               /\ cooldown_until > now => cooldown_until' >= cooldown_until)
       /\ (cooldown_until' > cooldown_until => \E c \in Callers : Sets(c))]_vars
\* A balance lookup has written both its deadlines, the second after the first
\* had passed, while a history lookup of another caller waits for the gate.
C36_Witness ==
    \E c, d \in Callers :
        /\ pc[c] = "done"
        /\ log[c].cooldowns = <<FIRST_COOLDOWN, RETRY_COOLDOWN>>
        /\ cooldown_until = now + RETRY_COOLDOWN
        /\ pc[d] = "wait_gate" /\ op[d] = "txs"

\* ----- C31
\* The sum of the confirmed (k = 1) or unconfirmed (k = 2) amounts of a list
\* of balances.
RECURSIVE Total(_, _)
Total(balances, k) ==
    IF balances = <<>> THEN 0 ELSE Head(balances)[k] + Total(Tail(balances), k)

\* C31: in an extended-key lookup the reported confirmed and unconfirmed
\* totals are the saturating sums of the amounts of the derived addresses
\* whose balance fetch succeeded; a total never wraps around and the lookup
\* never panics on overflow.
C31_SaturatingTotals ==
    (is_xpub(current.content) /\ build /= "nostr") =>
        /\ hpc /= "panicked"
        /\ response.status = "ok" =>
              response.balance = <<Capped(Total(summed, 1)), Capped(Total(summed, 2))>>

\* ----- C32
\* C32: while no peer is paired, an event of sender S whose content decrypts to
\* the pairing message "hello / paired" results in S being stored as the
\* paired peer: once the legacy loop has handled it, store_pairing has run.
C32_PairingStored ==
    (/\ build = "legacy_handler"
     /\ ~paired
     /\ hpc = "recv"
     /\ nip44_decrypt(current) /\ current.content = "hello_paired") =>
        stored_pairing = current.sender

\* ----- C37
\* The event is of the request kind, p-tagged to the server and carries a req
\* tag.
Qualifies(e) == e.kind = BALANCEBRIDGE_REQUEST_KIND /\ e.p /\ get_tag(e) /= <<>>

\* C37: for every event of the request kind, p-tagged to the server and
\* carrying a req tag, that nostr_handler.rs takes from its channel, the
\* handler makes exactly one publish attempt, of an ok or of an error
\* response: none while the lookup runs, one when the loop is back at recv()
\* for the next event; the response published last is the one of the event
\* received last.
C37_OnePublishPerRequest ==
    (build = "nostr_handler" /\ Qualifies(current)) =>
        /\ hpc \in {"recv", "call", "await"}
        /\ hpc \in {"call", "await"} => outcome.publishes = 0 /\ response = NoResponse
        /\ hpc = "recv" => outcome.publishes = 1 /\ outcome.sent \in {"ok", "failed"}
        /\ response /= NoResponse =>
              /\ response.req = get_tag(current)
              /\ response.status \in {"ok", "error"}
              /\ response.status = "ok" <=> outcome.lookup = "ok"
\* The second of two requests has been answered with the error of its failed
\* lookup, nothing having been lost on the way.
C37_Witness ==
    /\ build = "nostr_handler"
    /\ Qualifies(current)
    /\ arrivals = MaxEvents /\ channel = <<>> /\ lags = 0
    /\ hpc = "recv"
    /\ outcome.lookup = "failed"
    /\ response.status = "error"

\* ----- C38
\* C38: every response payload nostr_handler.rs publishes has status "ok"
\* exactly when its result is Some and its error is None, and status "error"
\* exactly when its error is Some and its result is None; none has both or
\* neither. A successful payload carries the balance and the transaction ids
\* of the lookup.
C38_StatusMatchesPayload ==
    (build = "nostr_handler" /\ response /= NoResponse) =>
        /\ response.status \in {"ok", "error"}
        /\ response.status = "ok" <=> (response.result /= None /\ response.error = None)
        /\ response.status = "error" <=> (response.error /= None /\ response.result = None)
        /\ Len(response.result) + Len(response.error) = 1
        /\ response.status = "ok" =>
              response.result = Some([balance |-> response.balance, txs |-> response.txs])
\* An error response to a request of another type has been published.
C38_Witness ==
    /\ build = "nostr_handler"
    /\ response.status = "error"
    /\ response.error = Some("invalid_type")
    /\ response.result = None
    /\ outcome.sent = "ok"

\* ----- C39
\* C39: an event the service published itself and a relay delivers back
\* triggers no lookup, no response and no pairing: when the event taken from
\* the channel is a response of the service, the handler has returned
\* without an Electrs call and without a publish attempt.
C39_NoResponseToOwnEvent ==
    /\ current.sender = "server" =>
          /\ hpc \in {"recv", "stopped"}
          /\ response = NoResponse
          /\ outcome.publishes = 0 /\ outcome.lookup = "none"
          /\ rpcs = 0 /\ gate_uses = 0
    /\ stored_pairing /= "server"
\* nostr_handler.rs has taken from its channel an ok response it published,
\* of the response kind, p-tagged to the server and carrying the req tag.
C39_Witness ==
    /\ build = "nostr_handler"
    /\ current.sender = "server"
    /\ current.kind = BALANCEBRIDGE_RESPONSE_KIND
    /\ current.p /\ current.req = <<"r1">>
    /\ hpc = "recv"

\* ----- C40
\* perform_lookup takes the value of a call that returned Ok.
TakesValue ==
    /\ pc[FirstCaller] = "done" /\ pc'[FirstCaller] = "idle"
    /\ result[FirstCaller].kind = "ok"
\* A gate call of the lookup is issued while a cooldown deadline is ahead.
IssuedWhileCooling ==
    /\ pc[FirstCaller] = "idle" /\ pc'[FirstCaller] /= "idle"
    /\ cooldown_until > now
\* The issued call fails fast: it returns the cooling-down error without
\* admission and without a blocking task.
FailsFast ==
    /\ pc'[FirstCaller] = "done"
    /\ result'[FirstCaller].kind = "cooling"
    /\ UNCHANGED <<permits, waiters, workVars>>
\* The lookup for an extended key has ended, a call of it having set a
\* cooldown.
EndedAfterTimeout ==
    /\ Derives(current.content)
    /\ timed_out
    /\ outcome.lookup /= "none"

\* The calls issued before the deadline fail fast, and the lookup ends with an
\* ok response of what its calls returned.
FailFastAndOk ==
    /\ [][IssuedWhileCooling => FailsFast]_vars
    /\ [](EndedAfterTimeout =>
            /\ outcome.lookup = "ok"
            /\ outcome.sent = "ok" =>
                  /\ response.status = "ok"
                  /\ response.balance = <<Capped(Total(summed, 1)), Capped(Total(summed, 2))>>
                  /\ Range(response.txs) = fetched)
\* No value is taken from the call that set a cooldown or from a later one.
NothingAfterTimeout == [][TakesValue => ~timed_out']_vars

\* C40: in the lookup of an extended key by nostr_handler.rs on the gated
\* client, once a call has timed out and set a cooldown, every later gate call
\* issued before the cooldown deadline fails fast without a physical call and
\* is skipped; the lookup ends with an ok response, and no value is added to
\* its totals or transaction ids from the timeout on: the response covers
\* only what was fetched before the timeout.
C40_OnlyFetchedBeforeTimeout == FailFastAndOk /\ NothingAfterTimeout

====
